---- MODULE Spec2Model ----
(***************************************************************************)
(* A model of the binary property table codec of 3d-tiles-tools:           *)
(*   - BinaryPropertyTables (the table builder),                           *)
(*   - StringPropertyModel (the reader of non-array STRING columns),       *)
(*   - BinaryMetadataEntityModel (the row facade).                         *)
(* Buffers are sequences of bytes; typed arrays are packed little-endian   *)
(* at their real width; strings are sequences of UTF-16 code units that    *)
(* TextEncoder / TextDecoder convert to and from UTF-8.                    *)
(***************************************************************************)
EXTENDS Integers, Sequences, FiniteSets, TLC

(***************************************************************************)
(* JavaScript values.  Every value carries a tag, so that Array.isArray,   *)
(* `defined` and truthiness can be computed from the value.                *)
(***************************************************************************)
Undefined == [t |-> "undefined"]
Str(s) == [t |-> "str", v |-> s]
Num(n) == [t |-> "num", v |-> n]
Arr(a) == [t |-> "arr", v |-> a]
Obj(f) == [t |-> "obj", v |-> f]

\* base/defined: neither undefined nor null
defined(x) == x.t # "undefined"

\* base/defaultValue: the first argument unless it is undefined
defaultValue(a, b) == IF defined(a) THEN a ELSE b

\* obj[key] of a JavaScript object: undefined for a key it does not have
Get(obj, key) == IF key \in DOMAIN obj.v THEN obj.v[key] ELSE Undefined

(***************************************************************************)
(* Sequence helpers                                                        *)
(***************************************************************************)
\* the concatenation of the sequences ss[lo], ..., ss[hi]
RECURSIVE ConcatRange(_, _, _)
ConcatRange(ss, lo, hi) ==
  IF lo > hi THEN <<>>
  ELSE IF lo = hi THEN ss[lo]
  ELSE LET mid == (lo + hi) \div 2
       IN  ConcatRange(ss, lo, mid) \o ConcatRange(ss, mid + 1, hi)

Concat(ss) == ConcatRange(ss, 1, Len(ss))

\* the sum s[lo] + ... + s[hi]
RECURSIVE SumRange(_, _, _)
SumRange(s, lo, hi) ==
  IF lo > hi THEN 0
  ELSE IF lo = hi THEN s[lo]
  ELSE LET mid == (lo + hi) \div 2
       IN  SumRange(s, lo, mid) + SumRange(s, mid + 1, hi)

SumSeq(s) == SumRange(s, 1, Len(s))

Pow2(n) == 2 ^ n

\* Array.prototype.indexOf on a sequence, 0-based, -1 when absent
IndexOf(s, x) ==
  IF \E i \in 1..Len(s) : s[i] = x
  THEN (CHOOSE i \in 1..Len(s) : s[i] = x /\ \A j \in 1..(i - 1) : s[j] # x) - 1
  ELSE -1

(***************************************************************************)
(* Typed arrays.  createBufferInternal packs the flattened values into a   *)
(* typed array of the component type and returns its bytes; the platform   *)
(* is little-endian.  Integer element conversion is modulo 2^bits (two's   *)
(* complement), so a value that does not fit wraps around.                 *)
(***************************************************************************)
IntegerTypes == {"INT8", "UINT8", "INT16", "UINT16", "INT32", "UINT32", "INT64", "UINT64"}
UnsignedTypes == {"UINT8", "UINT16", "UINT32", "UINT64"}
FloatTypes == {"FLOAT32", "FLOAT64"}
ComponentTypes == IntegerTypes \cup FloatTypes

ByteSize(ct) ==
  CASE ct \in {"INT8", "UINT8"} -> 1
    [] ct \in {"INT16", "UINT16"} -> 2
    [] ct \in {"INT32", "UINT32", "FLOAT32"} -> 4
    [] ct \in {"INT64", "UINT64", "FLOAT64"} -> 8

\* the n little-endian bytes of the two's complement of v (|v| < 2^31)
IntBytes(v, n) ==
  [k \in 1..n |-> IF k <= 4 THEN (v \div (256 ^ (k - 1))) % 256
                  ELSE IF v < 0 THEN 255 ELSE 0]

Abs(v) == IF v < 0 THEN 0 - v ELSE v
Log2(a) == CHOOSE e \in 0..30 : Pow2(e) <= a /\ (e = 30 \/ a < Pow2(e + 1))

\* the 4 bytes of the IEEE 754 single of an integer v, |v| < 2^24
Float32Bytes(v) ==
  IF v = 0 THEN <<0, 0, 0, 0>>
  ELSE LET a == Abs(v)
           e == Log2(a)
           w == (e + 127) * Pow2(23) + (a - Pow2(e)) * Pow2(23 - e)
       IN  <<w % 256, (w \div 256) % 256, (w \div 65536) % 256,
             (w \div Pow2(24)) + (IF v < 0 THEN 128 ELSE 0)>>

\* the 8 bytes of the IEEE 754 double of an integer v, |v| < 2^20
Float64Bytes(v) ==
  IF v = 0 THEN <<0, 0, 0, 0, 0, 0, 0, 0>>
  ELSE LET a == Abs(v)
           e == Log2(a)
           w == (e + 1023) * Pow2(20) + (a - Pow2(e)) * Pow2(20 - e)
       IN  <<0, 0, 0, 0, w % 256, (w \div 256) % 256, (w \div 65536) % 256,
             (w \div Pow2(24)) + (IF v < 0 THEN 128 ELSE 0)>>

\* one element of a typed array of the given component type, as bytes
ElementBytes(v, ct) ==
  CASE ct \in IntegerTypes -> IntBytes(v, ByteSize(ct))
    [] ct = "FLOAT32" -> Float32Bytes(v)
    [] ct = "FLOAT64" -> Float64Bytes(v)

\* new XxxArray(flatValues).buffer
TypedArrayBytes(flat, ct) == Concat([i \in 1..Len(flat) |-> ElementBytes(flat[i], ct)])

\* NumericBuffers.getNumericFromBuffer for the unsigned integer types: the
\* element at `index` (not a byte offset), little-endian.  A read that is
\* not inside the buffer is an error.
ReadInBounds(buffer, index, ct) ==
  index >= 0 /\ (index + 1) * ByteSize(ct) <= Len(buffer)

ReadUnsigned(buffer, index, ct) ==
  LET n == ByteSize(ct)
      b == index * n
  IN  SumSeq([k \in 1..n |-> IF buffer[b + k] = 0 THEN 0
                            ELSE buffer[b + k] * (256 ^ (k - 1))])

(***************************************************************************)
(* Strings are sequences of UTF-16 code units.  TextEncoder.encode turns a *)
(* string into UTF-8 (a surrogate pair is one 4-byte code point, a lone    *)
(* surrogate becomes U+FFFD); TextDecoder.decode (utf-8, not fatal,        *)
(* ignoreBOM false) turns bytes into a string, replacing every ill-formed  *)
(* subsequence by U+FFFD and dropping a leading U+FEFF.                    *)
(***************************************************************************)
IsHighSurrogate(u) == u >= 55296 /\ u <= 56319
IsLowSurrogate(u) == u >= 56320 /\ u <= 57343

CodePointBytes(cp) ==
  IF cp < 128 THEN <<cp>>
  ELSE IF cp < 2048 THEN <<192 + (cp \div 64), 128 + (cp % 64)>>
  ELSE IF cp < 65536
       THEN <<224 + (cp \div 4096), 128 + ((cp \div 64) % 64), 128 + (cp % 64)>>
       ELSE <<240 + (cp \div 262144), 128 + ((cp \div 4096) % 64),
              128 + ((cp \div 64) % 64), 128 + (cp % 64)>>

CodeUnits(cp) ==
  IF cp < 65536 THEN <<cp>>
  ELSE <<55296 + ((cp - 65536) \div 1024), 56320 + ((cp - 65536) % 1024)>>

\* The bytes that the code unit at position i of s contributes: a high
\* surrogate followed by a low one is a pair and gives the 4 bytes of its
\* code point, the low one of a pair gives none, a lone surrogate gives the
\* bytes of U+FFFD.
UnitBytes(s, i) ==
  IF IsHighSurrogate(s[i])
  THEN IF i < Len(s) /\ IsLowSurrogate(s[i + 1])
       THEN CodePointBytes(65536 + (s[i] - 55296) * 1024 + (s[i + 1] - 56320))
       ELSE CodePointBytes(65533)
  ELSE IF IsLowSurrogate(s[i])
       THEN IF i > 1 /\ IsHighSurrogate(s[i - 1]) THEN <<>> ELSE CodePointBytes(65533)
       ELSE CodePointBytes(s[i])

\* new TextEncoder().encode(s)
TextEncode(s) == Concat([i \in 1..Len(s) |-> UnitBytes(s, i)])

\* The UTF-8 decoder of the Encoding standard.  A lead byte announces 1 to
\* 3 continuation bytes; the first of them must lie in a range that depends
\* on the lead (no overlong forms, no surrogates, nothing above U+10FFFF).
IsLead(x) == x \in 194..244
Need(x) == IF x <= 223 THEN 1 ELSE IF x <= 239 THEN 2 ELSE 3
ContinuationOk(lead, j, y) ==
  IF j > 1 THEN y \in 128..191
  ELSE y >= (IF lead = 224 THEN 160 ELSE IF lead = 240 THEN 144 ELSE 128)
       /\ y <= (IF lead = 237 THEN 159 ELSE IF lead = 244 THEN 143 ELSE 191)

\* how many of the continuation bytes that the lead at i announces follow it
Matched(b, i) ==
  LET ok(m) == \A j \in 1..m : i + j <= Len(b) /\ ContinuationOk(b[i], j, b[i + j])
  IN  CHOOSE m \in 0..Need(b[i]) : ok(m) /\ (m = Need(b[i]) \/ ~ok(m + 1))

\* the byte at i continues a sequence that a lead byte before it began
Consumed(b, i) ==
  \E k \in 1..3 : i - k >= 1 /\ IsLead(b[i - k]) /\ k <= Matched(b, i - k)

\* What the decoder emits for the sequence that starts at i: a code point,
\* or U+FFFD for a byte that starts nothing and for a sequence cut short.
Emitted(b, i) ==
  IF b[i] < 128 THEN <<b[i]>>
  ELSE IF ~IsLead(b[i]) \/ Matched(b, i) < Need(b[i]) THEN <<65533>>
  ELSE IF Need(b[i]) = 1 THEN CodeUnits((b[i] % 32) * 64 + (b[i + 1] % 64))
  ELSE IF Need(b[i]) = 2
       THEN CodeUnits(((b[i] % 16) * 64 + (b[i + 1] % 64)) * 64 + (b[i + 2] % 64))
       ELSE CodeUnits((((b[i] % 8) * 64 + (b[i + 1] % 64)) * 64 + (b[i + 2] % 64)) * 64
                      + (b[i + 3] % 64))

Utf8Decode(b) ==
  Concat([i \in 1..Len(b) |-> IF Consumed(b, i) THEN <<>> ELSE Emitted(b, i)])

\* new TextDecoder().decode(bytes): a leading byte order mark is not part
\* of the result
TextDecode(b) ==
  LET out == Utf8Decode(b)
  IN  IF out # <<>> /\ out[1] = 65279 THEN Tail(out) ELSE out

Min(a, b) == IF a < b THEN a ELSE b
Max(a, b) == IF a > b THEN a ELSE b

\* ArrayBuffer.prototype.slice(begin, end): both ends are clamped to the
\* buffer, a negative one counts from its end; it never throws
ArrayBufferSlice(buf, begin, end) ==
  LET len == Len(buf)
      first == IF begin < 0 THEN Max(len + begin, 0) ELSE Min(begin, len)
      final == IF end < 0 THEN Max(len + end, 0) ELSE Min(end, len)
  IN  SubSeq(buf, first + 1, final)

(***************************************************************************)
(* Results of calls that may throw                                         *)
(***************************************************************************)
Ok(v) == [ok |-> TRUE, v |-> v]
Throw(kind, message) == [ok |-> FALSE, error |-> kind, message |-> message]

(***************************************************************************)
(* BinaryPropertyTables: the table builder                                 *)
(***************************************************************************)

\* flattenFully as a list: the non-array leaves of a value, in order
RECURSIVE FlattenLeaves(_)
FlattenLeaves(values) ==
  IF values.t = "arr"
  THEN Concat([i \in 1..Len(values.v) |-> FlattenLeaves(values.v[i])])
  ELSE <<values>>

\* flattenFully: an array becomes the array of its leaves, anything else
\* is returned as it is
flattenFully(values) ==
  IF values.t = "arr" THEN Arr(FlattenLeaves(values)) ELSE values

\* flatten: [...values], a copy of the outer array
flatten(values) == Arr(values.v)

\* the numbers of an array of numbers
Numbers(arr) == [i \in 1..Len(arr.v) |-> arr.v[i].v]

createBufferInternal(values, componentType) ==
  LET flatValues == flattenFully(values)
  IN  IF defined(componentType) /\ componentType.v \in ComponentTypes
      THEN Ok(TypedArrayBytes(Numbers(flatValues), componentType.v))
      ELSE Throw("MetadataError", "not a valid component type")

createBuffer(values, componentType) == createBufferInternal(values, componentType)

\* values.join(""), then TextEncoder.encode
createStringBufferInternal(inputValues) ==
  LET values == flattenFully(inputValues)
  IN  TextEncode(Concat([i \in 1..Len(values.v) |-> values.v[i].v]))

createStringBuffer(values) == createStringBufferInternal(values)

\* createBooleanBufferInternal as it would be if it filled each byte from
\* its most significant bit
createBooleanBufferInternalFromTheTop(inputValues) ==
  LET values == flattenFully(inputValues).v
      length == (Len(values) + 7) \div 8
  IN  [b \in 1..length |->
         SumSeq([k \in 1..8 |->
           IF 8 * (b - 1) + k <= Len(values) /\ values[8 * (b - 1) + k].v = TRUE
           THEN Pow2(8 - k) ELSE 0])]

\* bit i % 8 of byte i >> 3 is set when values[i] is true
createBooleanBufferInternal(inputValues) ==
  LET values == flattenFully(inputValues).v
      length == (Len(values) + 7) \div 8
  IN  [b \in 1..length |->
         SumSeq([k \in 1..8 |->
           IF 8 * (b - 1) + k <= Len(values) /\ values[8 * (b - 1) + k].v = TRUE
           THEN Pow2(k - 1) ELSE 0])]

createBooleanBuffer(values) == createBooleanBufferInternal(values)

\* the running sums base + l[lo], ..., base + l[lo] + ... + l[hi]
RECURSIVE RunningSums(_, _, _, _)
RunningSums(lengths, lo, hi, base) ==
  IF lo > hi THEN <<>>
  ELSE IF lo = hi THEN <<Num(base + lengths[lo])>>
  ELSE LET mid == (lo + hi) \div 2
           left == RunningSums(lengths, lo, mid, base)
       IN  left \o RunningSums(lengths, mid + 1, hi, left[Len(left)].v)

\* the offsets 0, l1, l1+l2, ... of elements of the given lengths
Cumulative(lengths) == <<Num(0)>> \o RunningSums(lengths, 1, Len(lengths), 0)

createStringOffsetBuffer(values, offsetType) ==
  LET strings == flattenFully(values).v
      offsets == Cumulative([i \in 1..Len(strings) |-> Len(TextEncode(strings[i].v))])
  IN  createBuffer(Arr(offsets), defaultValue(offsetType, Str("UINT32")))

createArrayOffsetBuffer(values, offsetType) ==
  LET offsets == Cumulative([i \in 1..Len(values.v) |-> Len(values.v[i].v)])
  IN  createBuffer(Arr(offsets), defaultValue(offsetType, Str("UINT32")))

\* metadataEnum.values.map(v => v.name)
ValueNames(metadataEnum) ==
  [i \in 1..Len(metadataEnum.values) |-> metadataEnum.values[i].name]

\* The number written for one value of an enum property: the position of
\* its name in the list of value names, -1 for a name that is not in it.
EnumCode(metadataEnum, valueName) == IndexOf(ValueNames(metadataEnum), valueName)

\* createValuesBuffer as it would be if an enum property whose enum the
\* schema lacks were packed with the default enum value type
createValuesBufferDefaulting(classProperty, schema, values) ==
  LET flattenedValues == flatten(values)
  IN  IF classProperty.type = "STRING" THEN Ok(createStringBuffer(flattenedValues))
      ELSE IF classProperty.type = "BOOLEAN" THEN Ok(createBooleanBuffer(flattenedValues))
      ELSE IF defined(classProperty.enumType)
      THEN LET names == flattenFully(flattenedValues).v
               metadataEnum == IF defined(schema.enums)
                               THEN Get(schema.enums, classProperty.enumType.v)
                               ELSE Undefined
           IN  IF ~defined(metadataEnum)
               THEN createBuffer(Arr([i \in 1..Len(names) |-> Num(0)]), Str("UINT16"))
               ELSE createBuffer(
                      Arr([i \in 1..Len(names) |->
                             Num(EnumCode(metadataEnum.v, names[i].v))]),
                      defaultValue(metadataEnum.v.valueType, Str("UINT16")))
      ELSE createBuffer(flattenedValues, classProperty.componentType)

createValuesBuffer(classProperty, schema, values) ==
  LET flattenedValues == flatten(values)
  IN  IF classProperty.type = "STRING" THEN Ok(createStringBuffer(flattenedValues))
      ELSE IF classProperty.type = "BOOLEAN" THEN Ok(createBooleanBuffer(flattenedValues))
      ELSE IF defined(classProperty.enumType)
      THEN LET names == flattenFully(flattenedValues).v
               metadataEnums == schema.enums
           IN  IF ~defined(metadataEnums)
               THEN Throw("MetadataError", "The schema does not define any enums")
               ELSE LET metadataEnum == Get(metadataEnums, classProperty.enumType.v)
                    IN  IF ~defined(metadataEnum)
                        THEN Throw("MetadataError", "The schema does not define enum")
                        ELSE createBuffer(
                               Arr([i \in 1..Len(names) |->
                                      Num(EnumCode(metadataEnum.v, names[i].v))]),
                               defaultValue(metadataEnum.v.valueType, Str("UINT16")))
      ELSE createBuffer(flattenedValues, classProperty.componentType)

\* What createPropertyTableProperty leaves behind: the property (when it
\* returns) and the buffers pushed to bufferViewsData up to then
Returned(propertyTableProperty, bufferViewsData) ==
  [ok |-> TRUE, error |-> "", message |-> "",
   propertyTableProperty |-> propertyTableProperty,
   bufferViewsData |-> bufferViewsData]
Thrown(thrown, bufferViewsData) ==
  [ok |-> FALSE, error |-> thrown.error, message |-> thrown.message,
   propertyTableProperty |-> Undefined,
   bufferViewsData |-> bufferViewsData]

\* createPropertyTableProperty as it would be if every array property got
\* an array offsets buffer, with or without a fixed count
createPropertyTablePropertyAnyArray(classProperty, schema, values, arrayOffsetType, stringOffsetType, bufferViewsData) ==
  LET valuesBuffer == createValuesBuffer(classProperty, schema, values)
      views1 == Append(bufferViewsData, valuesBuffer.v)
      property1 == [values |-> Num(Len(bufferViewsData)),
                    offset |-> Undefined, scale |-> Undefined,
                    max |-> Undefined, min |-> Undefined,
                    arrayOffsets |-> Undefined, stringOffsets |-> Undefined]
      isVariableLengthArray == classProperty.array
      arrayOffsetBuffer == createArrayOffsetBuffer(values, arrayOffsetType)
      views2 == IF isVariableLengthArray
                THEN Append(views1, arrayOffsetBuffer.v) ELSE views1
      property2 == IF isVariableLengthArray
                   THEN [property1 EXCEPT !.arrayOffsets = Num(Len(views1))]
                   ELSE property1
      stringOffsetBuffer == createStringOffsetBuffer(values, stringOffsetType)
  IN  IF ~valuesBuffer.ok THEN Thrown(valuesBuffer, bufferViewsData)
      ELSE IF isVariableLengthArray /\ ~arrayOffsetBuffer.ok
           THEN Thrown(arrayOffsetBuffer, views1)
      ELSE IF classProperty.type # "STRING" THEN Returned(property2, views2)
      ELSE IF ~stringOffsetBuffer.ok THEN Thrown(stringOffsetBuffer, views2)
      ELSE Returned([property2 EXCEPT !.stringOffsets = Num(Len(views2))],
                    Append(views2, stringOffsetBuffer.v))

createPropertyTableProperty(classProperty, schema, values, arrayOffsetType, stringOffsetType, bufferViewsData) ==
  LET valuesBuffer == createValuesBuffer(classProperty, schema, values)
      views1 == Append(bufferViewsData, valuesBuffer.v)
      property1 == [values |-> Num(Len(bufferViewsData)),
                    offset |-> Undefined, scale |-> Undefined,
                    max |-> Undefined, min |-> Undefined,
                    arrayOffsets |-> Undefined, stringOffsets |-> Undefined]
      isVariableLengthArray == classProperty.array /\ ~defined(classProperty.count)
      arrayOffsetBuffer == createArrayOffsetBuffer(values, arrayOffsetType)
      views2 == IF isVariableLengthArray
                THEN Append(views1, arrayOffsetBuffer.v) ELSE views1
      property2 == IF isVariableLengthArray
                   THEN [property1 EXCEPT !.arrayOffsets = Num(Len(views1))]
                   ELSE property1
      stringOffsetBuffer == createStringOffsetBuffer(values, stringOffsetType)
  IN  IF ~valuesBuffer.ok THEN Thrown(valuesBuffer, bufferViewsData)
      ELSE IF isVariableLengthArray /\ ~arrayOffsetBuffer.ok
           THEN Thrown(arrayOffsetBuffer, views1)
      ELSE IF classProperty.type # "STRING" THEN Returned(property2, views2)
      ELSE IF ~stringOffsetBuffer.ok THEN Thrown(stringOffsetBuffer, views2)
      ELSE Returned([property2 EXCEPT !.stringOffsets = Num(Len(views2))],
                    Append(views2, stringOffsetBuffer.v))

createPropertyTableFromProperty(className, propertyName, count, propertyTableProperty) ==
  [name |-> "testPropertyTable", class |-> className, count |-> count,
   properties |-> Obj(propertyName :> propertyTableProperty)]

\* The outcome of a call of the builder: the table it returns, or the error
\* it throws; `created` are the buffers it had created by then.
BuilderThrew(error, message, created) ==
  [ok |-> FALSE, error |-> error, message |-> message,
   created |-> created, table |-> Undefined]

createBinaryPropertyTable(schema, className, propertyName, values, arrayOffsetType, stringOffsetType) ==
  LET classes == schema.classes
      metadataClass == Get(classes, className)
      classProperties == metadataClass.v.properties
      classProperty == Get(classProperties, propertyName)
      made == createPropertyTableProperty(classProperty.v, schema, values,
                                          arrayOffsetType, stringOffsetType, <<>>)
      propertyTable == createPropertyTableFromProperty(
                         className, propertyName, Len(values.v),
                         made.propertyTableProperty)
  IN  IF ~defined(classes)
      THEN BuilderThrew("MetadataError", "The schema does not define any classes", <<>>)
      ELSE IF ~defined(metadataClass)
      THEN BuilderThrew("MetadataError", "The schema does not define the class", <<>>)
      ELSE IF ~defined(classProperties)
      THEN BuilderThrew("MetadataError", "The schema class does not define any properties", <<>>)
      ELSE IF ~defined(classProperty)
      THEN BuilderThrew("MetadataError", "The schema class does not define property", <<>>)
      ELSE IF ~made.ok
      THEN BuilderThrew(made.error, made.message, made.bufferViewsData)
      ELSE [ok |-> TRUE, error |-> "", message |-> "",
            created |-> made.bufferViewsData,
            table |-> [metadataClass |-> metadataClass.v,
                       propertyTable |-> propertyTable,
                       binaryBufferData |->
                         [bufferViewsData |-> made.bufferViewsData]]]

(***************************************************************************)
(* Slices and the string property model                                    *)
(***************************************************************************)
Buf(bytes) == [t |-> "buf", v |-> bytes]

\* BinaryPropertyModels.computeSlice: the element range of unit `index`,
\* from the offsets buffer when there is one, else from the fixed count.
\* An index that is negative or reads past the offsets buffer is an error.
computeSlice(index, offsetsBuffer, offsetType, count) ==
  IF defined(offsetsBuffer)
  THEN IF ReadInBounds(offsetsBuffer.v, index, offsetType)
          /\ ReadInBounds(offsetsBuffer.v, index + 1, offsetType)
       THEN LET offset == ReadUnsigned(offsetsBuffer.v, index, offsetType)
                nextOffset == ReadUnsigned(offsetsBuffer.v, index + 1, offsetType)
            IN  Ok([offset |-> offset, length |-> nextOffset - offset])
       ELSE Throw("IndexError", "offset index out of range")
  ELSE IF index < 0 THEN Throw("IndexError", "negative index")
       ELSE Ok([offset |-> index * count.v, length |-> count.v])

\* ArrayBuffers.fromBuffer: the bytes of the buffer, as an ArrayBuffer
fromBuffer(buffer) == buffer

\* new StringPropertyModel(valuesBuffer, stringOffsetsBuffer, stringOffsetType)
StringPropertyModel(valuesBuffer, stringOffsetsBuffer, stringOffsetType) ==
  [t |-> "StringPropertyModel",
   valuesBuffer |-> valuesBuffer,
   stringOffsetsBuffer |-> stringOffsetsBuffer,
   stringOffsetType |-> stringOffsetType]

\* StringPropertyModel.getPropertyValue(index)
StringPropertyModel_getPropertyValue(self, index) ==
  LET stringSlice == computeSlice(index, Buf(self.stringOffsetsBuffer),
                                  self.stringOffsetType, Undefined)
      stringOffset == stringSlice.v.offset
      stringLength == stringSlice.v.length
      arrayBuffer == fromBuffer(self.valuesBuffer)
  IN  IF ~stringSlice.ok THEN stringSlice
      ELSE Ok(Str(TextDecode(
             ArrayBufferSlice(arrayBuffer, stringOffset, stringOffset + stringLength))))

\* new StringArrayPropertyModel(valuesBuffer, arrayOffsetsBuffer,
\* arrayOffsetType, stringOffsetsBuffer, stringOffsetType, count)
StringArrayPropertyModel(valuesBuffer, arrayOffsetsBuffer, arrayOffsetType, stringOffsetsBuffer, stringOffsetType, count) ==
  [t |-> "StringArrayPropertyModel",
   valuesBuffer |-> valuesBuffer,
   arrayOffsetsBuffer |-> arrayOffsetsBuffer,
   arrayOffsetType |-> arrayOffsetType,
   stringOffsetsBuffer |-> stringOffsetsBuffer,
   stringOffsetType |-> stringOffsetType,
   count |-> count]

\* the first of the results that is an error
FirstError(results) ==
  results[CHOOSE i \in 1..Len(results) :
            ~results[i].ok /\ \A j \in 1..(i - 1) : results[j].ok]

\* getPropertyValue as it would be if the strings of every row were counted
\* from the first entry of the string offsets
StringArrayPropertyModel_getPropertyValueFromFirst(self, index) ==
  LET arraySlice == computeSlice(index, self.arrayOffsetsBuffer,
                                 self.arrayOffsetType, self.count)
      arrayLength == arraySlice.v.length
      stringSlice == [i \in 1..arrayLength |->
                        computeSlice(i - 1, Buf(self.stringOffsetsBuffer),
                                     self.stringOffsetType, Undefined)]
      arrayBuffer == fromBuffer(self.valuesBuffer)
      element(i) ==
        Str(TextDecode(ArrayBufferSlice(arrayBuffer, stringSlice[i].v.offset,
              stringSlice[i].v.offset + stringSlice[i].v.length)))
  IN  IF ~arraySlice.ok THEN arraySlice
      ELSE IF arrayLength < 0 THEN Throw("RangeError", "Invalid array length")
      ELSE IF \E i \in 1..arrayLength : ~stringSlice[i].ok THEN FirstError(stringSlice)
      ELSE Ok(Arr([i \in 1..arrayLength |-> element(i)]))

\* StringArrayPropertyModel.getPropertyValue(index): `new Array(arrayLength)`
\* throws a RangeError for a negative length; the strings are read in order,
\* so the first slice that fails ends the call
StringArrayPropertyModel_getPropertyValue(self, index) ==
  LET arraySlice == computeSlice(index, self.arrayOffsetsBuffer,
                                 self.arrayOffsetType, self.count)
      arrayOffset == arraySlice.v.offset
      arrayLength == arraySlice.v.length
      stringSlice == [i \in 1..arrayLength |->
                        computeSlice(arrayOffset + i - 1, Buf(self.stringOffsetsBuffer),
                                     self.stringOffsetType, Undefined)]
      arrayBuffer == fromBuffer(self.valuesBuffer)
      element(i) ==
        Str(TextDecode(ArrayBufferSlice(arrayBuffer, stringSlice[i].v.offset,
              stringSlice[i].v.offset + stringSlice[i].v.length)))
  IN  IF ~arraySlice.ok THEN arraySlice
      ELSE IF arrayLength < 0 THEN Throw("RangeError", "Invalid array length")
      ELSE IF \E i \in 1..arrayLength : ~stringSlice[i].ok THEN FirstError(stringSlice)
      ELSE Ok(Arr([i \in 1..arrayLength |-> element(i)]))

\* MetadataTypes.componentCountForType
componentCountForType(type) ==
  CASE type \in {"SCALAR", "ENUM"} -> 1
    [] type = "VEC2" -> 2
    [] type = "VEC3" -> 3
    [] type \in {"VEC4", "MAT2"} -> 4
    [] type = "MAT3" -> 9
    [] type = "MAT4" -> 16

\* NumericBuffers.getNumericFromBuffer(buffer, index, componentType): the
\* element at `index`; a read outside the buffer throws
getNumericFromBuffer(buffer, index, componentType) ==
  IF ReadInBounds(buffer, index, componentType)
  THEN Ok(Num(ReadUnsigned(buffer, index, componentType)))
  ELSE Throw("RangeError", "The value of offset is out of range")

\* NumericBuffers.getNumericArrayFromBuffer(buffer, index, componentCount,
\* componentType): the components index * componentCount, ... in order
getNumericArrayFromBuffer(buffer, index, componentCount, componentType) ==
  LET component == [c \in 1..componentCount |->
                      getNumericFromBuffer(buffer, index * componentCount + c - 1,
                                           componentType)]
  IN  IF \E c \in 1..componentCount : ~component[c].ok THEN FirstError(component)
      ELSE Ok(Arr([c \in 1..componentCount |-> component[c].v]))

\* new NumericArrayPropertyModel(type, valuesBuffer, componentType,
\* arrayOffsetsBuffer, arrayOffsetType, count)
NumericArrayPropertyModel(type, valuesBuffer, componentType, arrayOffsetsBuffer, arrayOffsetType, count) ==
  [t |-> "NumericArrayPropertyModel",
   type |-> type,
   valuesBuffer |-> valuesBuffer,
   componentType |-> componentType,
   arrayOffsetsBuffer |-> arrayOffsetsBuffer,
   arrayOffsetType |-> arrayOffsetType,
   count |-> count]

\* getPropertyValue as it would be if it read one number for an element of
\* every type
NumericArrayPropertyModel_getPropertyValueOfScalars(self, index) ==
  LET componentCount == componentCountForType(self.type)
      arraySlice == computeSlice(index, self.arrayOffsetsBuffer,
                                 self.arrayOffsetType, self.count)
      arrayOffset == arraySlice.v.offset
      arrayLength == arraySlice.v.length
      element == [i \in 1..arrayLength |->
                    IF TRUE
                    THEN getNumericFromBuffer(self.valuesBuffer, arrayOffset + i - 1,
                                              self.componentType)
                    ELSE getNumericArrayFromBuffer(self.valuesBuffer, arrayOffset + i - 1,
                                                   componentCount, self.componentType)]
  IN  IF ~arraySlice.ok THEN arraySlice
      ELSE IF arrayLength < 0 THEN Throw("RangeError", "Invalid array length")
      ELSE IF \E i \in 1..arrayLength : ~element[i].ok THEN FirstError(element)
      ELSE Ok(Arr([i \in 1..arrayLength |-> element[i].v]))

\* NumericArrayPropertyModel.getPropertyValue(index)
NumericArrayPropertyModel_getPropertyValue(self, index) ==
  LET componentCount == componentCountForType(self.type)
      arraySlice == computeSlice(index, self.arrayOffsetsBuffer,
                                 self.arrayOffsetType, self.count)
      arrayOffset == arraySlice.v.offset
      arrayLength == arraySlice.v.length
      element == [i \in 1..arrayLength |->
                    IF self.type = "SCALAR" \/ self.type = "ENUM"
                    THEN getNumericFromBuffer(self.valuesBuffer, arrayOffset + i - 1,
                                              self.componentType)
                    ELSE getNumericArrayFromBuffer(self.valuesBuffer, arrayOffset + i - 1,
                                                   componentCount, self.componentType)]
  IN  IF ~arraySlice.ok THEN arraySlice
      ELSE IF arrayLength < 0 THEN Throw("RangeError", "Invalid array length")
      ELSE IF \E i \in 1..arrayLength : ~element[i].ok THEN FirstError(element)
      ELSE Ok(Arr([i \in 1..arrayLength |-> element[i].v]))

(***************************************************************************)
(* The inputs of the model                                                 *)
(***************************************************************************)
\* the largest number of rows of a table
MaxRows == 2
\* The length of the long string and of the long array row: more than half
\* of the 2^8 values of an 8-bit offset type, so that two of them take the
\* offsets past what that type holds.
LongLen == (Pow2(8) \div 2) + 2

SeqsUpTo(S, n) == UNION {[1..k -> S] : k \in 0..n}

LongString == [i \in 1..LongLen |-> 97]
\* "", "ab", "cde", "e-acute", U+FEFF "a", a lone high and a lone low
\* surrogate, and the long string
StringPool ==
  {<<>>, <<97, 98>>, <<99, 100, 101>>, <<233>>, <<65279, 97>>,
   <<55357>>, <<56832>>, LongString}
StringColumns ==
  {Arr([i \in 1..Len(ss) |-> Str(ss[i])]) : ss \in SeqsUpTo(StringPool, MaxRows)}

LongRow == Arr([i \in 1..LongLen |-> Str(<<>>)])
RowPool ==
  {Arr(<<>>), Arr(<<Str(<<97, 98>>)>>), Arr(<<Str(<<97, 98>>), Str(<<233>>)>>), LongRow}
StringArrayColumns == {Arr(rows) : rows \in SeqsUpTo(RowPool, MaxRows)}

\* the names "A", "B" and "C" of enum values
NameA == <<65>>
NameB == <<66>>
NameC == <<67>>
EnumNames == {NameA, NameB, NameC}
EnumColumns ==
  {Arr([i \in 1..Len(ns) |-> Str(ns[i])]) : ns \in SeqsUpTo(EnumNames, MaxRows)}

ScalarColumns ==
  {Arr([i \in 1..Len(ns) |-> Num(ns[i])]) : ns \in SeqsUpTo({0, 1, 255, 256}, MaxRows)}

\* rows of numbers of any length, rows of two numbers, rows of two strings
ScalarArrayColumns ==
  {Arr(rows) : rows \in SeqsUpTo({Arr(<<>>), Arr(<<Num(7)>>), Arr(<<Num(1), Num(2)>>)},
                                 MaxRows)}
FixedArrayColumns ==
  {Arr(rows) : rows \in SeqsUpTo({Arr(<<Num(1), Num(2)>>), Arr(<<Num(3), Num(4)>>)},
                                 MaxRows)}
FixedStringArrayColumns ==
  {Arr(rows) : rows \in SeqsUpTo({Arr(<<Str(<<97, 98>>), Str(<<233>>)>>),
                                  Arr(<<Str(<<>>), Str(<<99, 100, 101>>)>>)}, MaxRows)}

BooleanColumns ==
  {Arr([i \in 1..Len(bs) |-> [t |-> "bool", v |-> bs[i]]]) :
     bs \in SeqsUpTo(BOOLEAN, MaxRows)}

\* rows of vectors of two numbers, rows of enum names, rows of booleans: a
\* row of three and one of nine, which takes a second byte
Vec2(a, b) == Arr(<<Num(a), Num(b)>>)
Vec2ArrayColumns ==
  {Arr(rows) : rows \in SeqsUpTo({Arr(<<>>), Arr(<<Vec2(1, 2)>>),
                                  Arr(<<Vec2(3, 4), Vec2(5, 6)>>)}, MaxRows)}
EnumArrayColumns ==
  {Arr(rows) : rows \in SeqsUpTo({Arr(<<Str(NameB)>>), Arr(<<Str(NameA), Str(NameB)>>)},
                                 MaxRows)}
Booleans(bs) == Arr([i \in 1..Len(bs) |-> [t |-> "bool", v |-> bs[i]]])
BooleanArrayColumns ==
  {Arr(rows) :
     rows \in SeqsUpTo({Booleans(<<>>), Booleans(<<TRUE, FALSE, TRUE>>),
                        Booleans(<<FALSE, TRUE, FALSE, FALSE, FALSE, FALSE, FALSE,
                                   TRUE, TRUE>>)}, MaxRows)}

\* the offset type arguments: none, each component type, an unknown name
OffsetTypeArgs == {Undefined} \cup {Str(ct) : ct \in ComponentTypes \cup {"BOGUS"}}

\* the two offset type arguments of a call for a string array: one of them
\* left out, or both the same
OffsetTypePairs ==
  {types \in OffsetTypeArgs \X OffsetTypeArgs :
     types[1] = Undefined \/ types[2] = Undefined \/ types[1] = types[2]}

ClassProperty(type, componentType, enumType, array, count) ==
  [type |-> type, componentType |-> componentType, enumType |-> enumType,
   array |-> array, count |-> count, offset |-> Undefined, scale |-> Undefined]

StringProperty == ClassProperty("STRING", Undefined, Undefined, FALSE, Undefined)
StringArrayProperty == ClassProperty("STRING", Undefined, Undefined, TRUE, Undefined)
EnumProperty == ClassProperty("ENUM", Undefined, Str("e"), FALSE, Undefined)
ScalarProperty == ClassProperty("SCALAR", Str("UINT8"), Undefined, FALSE, Undefined)
UntypedProperty == ClassProperty("SCALAR", Undefined, Undefined, FALSE, Undefined)
BooleanProperty == ClassProperty("BOOLEAN", Undefined, Undefined, FALSE, Undefined)
\* arrays of numbers without and with a fixed count, and an array of strings
\* with a fixed count
ScalarArrayProperty == ClassProperty("SCALAR", Str("UINT8"), Undefined, TRUE, Undefined)
FixedArrayProperty == ClassProperty("SCALAR", Str("UINT8"), Undefined, TRUE, Num(2))
FixedStringArrayProperty == ClassProperty("STRING", Undefined, Undefined, TRUE, Num(2))
\* arrays of vectors, of enum values and of booleans
Vec2ArrayProperty == ClassProperty("VEC2", Str("UINT8"), Undefined, TRUE, Undefined)
EnumArrayProperty == ClassProperty("ENUM", Undefined, Str("e"), TRUE, Undefined)
BooleanArrayProperty == ClassProperty("BOOLEAN", Undefined, Undefined, TRUE, Undefined)

MetadataEnum(valueType, values) == Obj([valueType |-> valueType, values |-> values])
EnumValue(name, value) == [name |-> name, value |-> value]
\* enums whose codes are, and are not, the positions in the list
MetadataEnums ==
  {MetadataEnum(vt, vs) :
     vt \in {Undefined, Str("UINT8"), Str("INT16")},
     vs \in {<<EnumValue(NameA, 0), EnumValue(NameB, 1)>>,
             <<EnumValue(NameA, 5), EnumValue(NameB, 2)>>,
             <<EnumValue(NameB, 1), EnumValue(NameA, 0)>>}}

SchemaOf(classes, enums) == [classes |-> classes, enums |-> enums]
ClassOf(properties) == Obj([name |-> "testMetadataClass", properties |-> properties])
SchemaWith(classProperty, enums) ==
  SchemaOf(Obj("c" :> ClassOf(Obj("p" :> Obj(classProperty)))), enums)

\* schemas that lack the class or the property that the call names
BrokenSchemas ==
  {SchemaOf(Undefined, Undefined),
   SchemaOf(Obj("d" :> ClassOf(Obj("p" :> Obj(StringProperty)))), Undefined),
   SchemaOf(Obj("c" :> ClassOf(Undefined)), Undefined),
   SchemaOf(Obj("c" :> ClassOf(Obj("q" :> Obj(StringProperty)))), Undefined)}

\* what `schema.enums` may be for a property with the enumType "e"
EnumsOfSchema ==
  {Undefined, Obj("f" :> MetadataEnum(Undefined, <<EnumValue(NameA, 0)>>))}
    \cup {Obj("e" :> me) : me \in MetadataEnums}

Call(schema, values, arrayOffsetType, stringOffsetType) ==
  [t |-> "call", schema |-> schema, className |-> "c", propertyName |-> "p",
   values |-> values,
   arrayOffsetType |-> arrayOffsetType, stringOffsetType |-> stringOffsetType]

\* The calls of createBinaryPropertyTable that the model makes.  An offset
\* type argument that the builder does not read for the property is left
\* undefined.
BuilderCalls ==
  {Call(SchemaWith(StringProperty, Undefined), vs, Undefined, sot) :
     vs \in StringColumns, sot \in OffsetTypeArgs}
  \cup {Call(SchemaWith(StringArrayProperty, Undefined), vs, types[1], types[2]) :
          vs \in StringArrayColumns, types \in OffsetTypePairs}
  \cup {Call(SchemaWith(EnumProperty, enums), vs, Undefined, Undefined) :
          enums \in EnumsOfSchema, vs \in EnumColumns}
  \cup {Call(SchemaWith(ScalarProperty, Undefined), vs, Undefined, Undefined) :
          vs \in ScalarColumns}
  \cup {Call(SchemaWith(UntypedProperty, Undefined), vs, Undefined, Undefined) :
          vs \in ScalarColumns}
  \cup {Call(SchemaWith(BooleanProperty, Undefined), vs, Undefined, Undefined) :
          vs \in BooleanColumns}
  \cup {Call(SchemaWith(ScalarArrayProperty, Undefined), vs, aot, Undefined) :
          vs \in ScalarArrayColumns, aot \in {Undefined, Str("UINT16")}}
  \cup {Call(SchemaWith(FixedArrayProperty, Undefined), vs, Undefined, Undefined) :
          vs \in FixedArrayColumns}
  \cup {Call(SchemaWith(FixedStringArrayProperty, Undefined), vs, Undefined, sot) :
          vs \in FixedStringArrayColumns, sot \in {Undefined, Str("UINT8")}}
  \cup {Call(SchemaWith(Vec2ArrayProperty, Undefined), vs, Undefined, Undefined) :
          vs \in Vec2ArrayColumns}
  \cup {Call(SchemaWith(EnumArrayProperty, Obj("e" :> MetadataEnum(vt, vs))),
              rows, Str("UINT8"), Undefined) :
          vt \in {Undefined, Str("UINT8")},
          vs \in {<<EnumValue(NameA, 0), EnumValue(NameB, 1)>>},
          rows \in EnumArrayColumns}
  \cup {Call(SchemaWith(BooleanArrayProperty, Undefined), vs, Undefined, Undefined) :
          vs \in BooleanArrayColumns}
  \cup {Call(schema, vs, Undefined, Undefined) :
          schema \in BrokenSchemas, vs \in StringColumns}

(***************************************************************************)
(* Numbers of the bounding volumes.  Lengths and heights are exact         *)
(* fractions n/d; angles are exact fractions of pi, so that PI is 1/1.     *)
(***************************************************************************)
RECURSIVE GCD(_, _)
GCD(a, b) == IF b = 0 THEN a ELSE GCD(b, a % b)
\* the fraction n/d, d > 0, in lowest terms
Ratio(n, d) == LET g == GCD(Abs(n), d) IN [n |-> n \div g, d |-> d \div g]
Whole(k) == Ratio(k, 1)
Plus(a, b) == Ratio(a.n * b.d + b.n * a.d, a.d * b.d)
Minus(a, b) == Ratio(a.n * b.d - b.n * a.d, a.d * b.d)
Times(a, b) == Ratio(a.n * b.n, a.d * b.d)
Less(a, b) == a.n * b.d < b.n * a.d
AtMost(a, b) == a.n * b.d <= b.n * a.d
\* the whole number below or at a fraction
Floor(a) == a.n \div a.d
\* Math.pow(2, -level)
TileScale(level) == Ratio(1, Pow2(level))

(***************************************************************************)
(* cesium: Cartesian3, Matrix3 (column-major), Rectangle and CesiumMath,   *)
(* as BoundingVolumeDerivation uses them.  The `result` argument of a      *)
(* function is the place that the caller stores its value in.              *)
(***************************************************************************)
Cartesian3_unpack(array, startingIndex) ==
  [i \in 1..3 |-> array[startingIndex + i]]
Matrix3_unpack(array, startingIndex) ==
  [i \in 1..9 |-> array[startingIndex + i]]
Matrix3_multiplyByVector(matrix, cartesian) ==
  [i \in 1..3 |->
     Plus(Plus(Times(matrix[i], cartesian[1]), Times(matrix[i + 3], cartesian[2])),
          Times(matrix[i + 6], cartesian[3]))]
Cartesian3_add(left, right) == [i \in 1..3 |-> Plus(left[i], right[i])]
\* multiplyByScale as it would be if it scaled the rows of the matrix
Matrix3_multiplyByScaleOfRows(matrix, scale) ==
  [i \in 1..9 |-> Times(matrix[i], scale[((i - 1) % 3) + 1])]
Matrix3_multiplyByScale(matrix, scale) ==
  [i \in 1..9 |-> Times(matrix[i], scale[((i - 1) \div 3) + 1])]
\* Cartesian3.pack and Matrix3.pack: the array with the numbers stored in it
Cartesian3_pack(value, array, startingIndex) ==
  [i \in 1..Len(array) |->
     IF i \in (startingIndex + 1)..(startingIndex + 3)
     THEN value[i - startingIndex] ELSE array[i]]
Matrix3_pack(value, array, startingIndex) ==
  [i \in 1..Len(array) |->
     IF i \in (startingIndex + 1)..(startingIndex + 9)
     THEN value[i - startingIndex] ELSE array[i]]

Rectangle_unpack(array, startingIndex) ==
  [west |-> array[startingIndex + 1], south |-> array[startingIndex + 2],
   east |-> array[startingIndex + 3], north |-> array[startingIndex + 4]]
\* the width as it would be without the step over the antimeridian
Rectangle_widthOfDifference(rectangle) == Minus(rectangle.east, rectangle.west)

\* Rectangle.width: measured eastwards, over the antimeridian if need be
Rectangle_width(rectangle) ==
  LET east == IF Less(rectangle.east, rectangle.west)
              THEN Plus(rectangle.east, Whole(2)) ELSE rectangle.east
  IN  Minus(east, rectangle.west)
Rectangle_height(rectangle) == Minus(rectangle.north, rectangle.south)

\* CesiumMath.mod(m, n) for n > 0: m when 0 < m < n, else ((m % n) + n) % n
CesiumMath_mod(m, n) ==
  IF Less(Whole(0), m) /\ Less(m, n) THEN m
  ELSE Minus(m, Times(n, Whole(Floor(Ratio(m.n * n.d, m.d * n.n)))))
\* CesiumMath.zeroToTwoPi
zeroToTwoPi(angle) ==
  IF AtMost(Whole(0), angle) /\ AtMost(angle, Whole(2)) THEN angle
  ELSE LET mod == CesiumMath_mod(angle, Whole(2))
       IN  IF mod = Whole(0) /\ angle # Whole(0) THEN Whole(2) ELSE mod
\* negativePiToPi as it would be if it left every angle as it is
negativePiToPiOfAnyAngle(angle) == angle

\* CesiumMath.negativePiToPi
negativePiToPi(angle) ==
  IF AtMost(Whole(0 - 1), angle) /\ AtMost(angle, Whole(1)) THEN angle
  ELSE Minus(zeroToTwoPi(Plus(angle, Whole(1))), Whole(1))

(***************************************************************************)
(* HilbertOrder and S2Cell.  A token is a string of hexadecimal digits,    *)
(* here the sequence of their values; a cell identifier is 64 bits, the    *)
(* most significant first.                                                 *)
(***************************************************************************)
\* the loop of HilbertOrder.encode2D from the step s on
RECURSIVE encode2DFrom(_, _, _, _)
encode2DFrom(n, s, px, py) ==
  IF s < 1 THEN 0
  ELSE LET rx == (px \div s) % 2
           ry == (py \div s) % 2
           xor == IF rx = 0 THEN ry ELSE 3 - ry
           fx == IF ry = 0 /\ rx = 1 THEN n - 1 - px ELSE px
           fy == IF ry = 0 /\ rx = 1 THEN n - 1 - py ELSE py
       IN  xor * s * s
             + (IF ry = 0 THEN encode2DFrom(n, s \div 2, fy, fx)
                ELSE encode2DFrom(n, s \div 2, px, py))
\* HilbertOrder.encode2D(level, x, y)
encode2D(level, x, y) == encode2DFrom(Pow2(level), Pow2(level) \div 2, x, y)

\* S2Cell.getIdFromToken: the digits, padded with zeros to 16, as 64 bits
getIdFromToken(token) ==
  [i \in 1..64 |->
     LET k == ((i - 1) \div 4) + 1
         digit == IF k <= Len(token.v) THEN token.v[k] ELSE 0
     IN  (digit \div Pow2(3 - ((i - 1) % 4))) % 2]
\* Number(id >> 61)
FaceOf(id) == 4 * id[1] + 2 * id[2] + id[3]
\* S2Cell.fromFacePositionLevel: three bits of the face, 2 * level bits of
\* the position, a bit 1, and zeros
fromFacePositionLevel(face, position, level) ==
  [i \in 1..64 |->
     IF i <= 3 THEN (face \div Pow2(3 - i)) % 2
     ELSE IF i <= 3 + 2 * level THEN (position \div Pow2(3 + 2 * level - i)) % 2
     ELSE IF i = 4 + 2 * level THEN 1 ELSE 0]
\* S2Cell.getTokenFromId: the 16 digits without the zeros at the end
getTokenFromId(id) ==
  LET digits == [k \in 1..16 |-> 8 * id[4 * k - 3] + 4 * id[4 * k - 2]
                                   + 2 * id[4 * k - 1] + id[4 * k]]
      used == {k \in 1..16 : digits[k] # 0}
      last == IF used = {} THEN 0 ELSE CHOOSE k \in used : \A j \in used : j <= k
  IN  Str(SubSeq(digits, 1, last))

(***************************************************************************)
(* BoundingVolumeDerivation                                                *)
(***************************************************************************)
\* the static scratch objects of the class, as constructed
NewScratch ==
  [scratchScaleFactors |-> [i \in 1..3 |-> Whole(0)],
   scratchRootCenter |-> [i \in 1..3 |-> Whole(0)],
   scratchCenter |-> [i \in 1..3 |-> Whole(0)],
   scratchHalfAxes |-> [i \in 1..9 |-> Whole(0)],
   scratchRectangle |-> [west |-> Whole(0), south |-> Whole(0),
                         east |-> Whole(0), north |-> Whole(0)]]

\* what a derivation returns, the scratch objects as it leaves them, and
\* the array or volume that it was given as it leaves it
Derived(value, statics, root) == [value |-> value, statics |-> statics, root |-> root]

\* hasExtension as it would be if it looked for the name in lower case
hasExtensionLowerCase(json, extensionName) ==
  /\ defined(json)
  /\ defined(Get(json, "extensions"))
  /\ defined(Get(Get(json, "extensions"), "3dtiles_bounding_volume_s2"))

\* json && json.extensions && json.extensions[extensionName]
hasExtension(json, extensionName) ==
  /\ defined(json)
  /\ defined(Get(json, "extensions"))
  /\ defined(Get(Get(json, "extensions"), extensionName))

\* the offset as it would be for the lower corner of a tile, not its middle
modelSpaceOfCorner(coordinate, tileScale) ==
  Plus(Whole(0 - 1), Times(Whole(2 * coordinate), tileScale))

\* -1 + (2 * coordinate + 1) * tileScale
modelSpace(coordinate, tileScale) ==
  Plus(Whole(0 - 1), Times(Whole(2 * coordinate + 1), tileScale))

\* deriveBoundingBox as it would be if it set the first two scale factors
\* only, and left the third as the call before left it
deriveBoundingBoxKeepingScale(statics, rootBox, level, x, y, z) ==
  LET s1 == [statics EXCEPT !.scratchRootCenter = Cartesian3_unpack(rootBox.v, 0)]
      s2 == [s1 EXCEPT !.scratchHalfAxes = Matrix3_unpack(rootBox.v, 3)]
      tileScale == TileScale(level)
      modelSpaceX == modelSpace(x, tileScale)
      modelSpaceY == modelSpace(y, tileScale)
      s3 == [s2 EXCEPT !.scratchScaleFactors[1] = tileScale,
                       !.scratchScaleFactors[2] = tileScale]
      modelSpaceZ == IF defined(z) THEN modelSpace(z.v, tileScale) ELSE Whole(0)
      s4 == IF defined(z) THEN [s3 EXCEPT !.scratchScaleFactors[3] = tileScale] ELSE s3
      s5 == [s4 EXCEPT !.scratchCenter = <<modelSpaceX, modelSpaceY, modelSpaceZ>>]
      s6 == [s5 EXCEPT !.scratchCenter =
                         Matrix3_multiplyByVector(s5.scratchHalfAxes, s5.scratchCenter)]
      s7 == [s6 EXCEPT !.scratchCenter =
                         Cartesian3_add(s6.scratchCenter, s6.scratchRootCenter)]
      halfAxes == Matrix3_multiplyByScale(s7.scratchHalfAxes, s7.scratchScaleFactors)
      newArray == [i \in 1..12 |-> Undefined]
      childBox == Matrix3_pack(halfAxes, Cartesian3_pack(s7.scratchCenter, newArray, 0), 3)
  IN  IF level = 0 THEN Derived(rootBox, statics, rootBox)
      ELSE Derived(Arr(childBox), s7, rootBox)

deriveBoundingBox(statics, rootBox, level, x, y, z) ==
  LET s1 == [statics EXCEPT !.scratchRootCenter = Cartesian3_unpack(rootBox.v, 0)]
      s2 == [s1 EXCEPT !.scratchHalfAxes = Matrix3_unpack(rootBox.v, 3)]
      tileScale == TileScale(level)
      modelSpaceX == modelSpace(x, tileScale)
      modelSpaceY == modelSpace(y, tileScale)
      s3 == [s2 EXCEPT !.scratchScaleFactors = <<tileScale, tileScale, Whole(1)>>]
      modelSpaceZ == IF defined(z) THEN modelSpace(z.v, tileScale) ELSE Whole(0)
      s4 == IF defined(z) THEN [s3 EXCEPT !.scratchScaleFactors[3] = tileScale] ELSE s3
      s5 == [s4 EXCEPT !.scratchCenter = <<modelSpaceX, modelSpaceY, modelSpaceZ>>]
      s6 == [s5 EXCEPT !.scratchCenter =
                         Matrix3_multiplyByVector(s5.scratchHalfAxes, s5.scratchCenter)]
      s7 == [s6 EXCEPT !.scratchCenter =
                         Cartesian3_add(s6.scratchCenter, s6.scratchRootCenter)]
      halfAxes == Matrix3_multiplyByScale(s7.scratchHalfAxes, s7.scratchScaleFactors)
      newArray == [i \in 1..12 |-> Undefined]
      childBox == Matrix3_pack(halfAxes, Cartesian3_pack(s7.scratchCenter, newArray, 0), 3)
  IN  IF level = 0 THEN Derived(rootBox, statics, rootBox)
      ELSE Derived(Arr(childBox), s7, rootBox)

\* the thickness as it would be if every level halved the root's
childThicknessOfHalf(tileScale, rootMinimumHeight, rootMaximumHeight) ==
  Times(Ratio(1, 2), Minus(rootMaximumHeight, rootMinimumHeight))

\* tileScale * (rootMaximumHeight - rootMinimumHeight)
childThickness(tileScale, rootMinimumHeight, rootMaximumHeight) ==
  Times(tileScale, Minus(rootMaximumHeight, rootMinimumHeight))

deriveBoundingRegion(statics, rootRegion, level, x, y, z) ==
  LET s1 == [statics EXCEPT !.scratchRectangle = Rectangle_unpack(rootRegion.v, 0)]
      rectangle == s1.scratchRectangle
      rootMinimumHeight == rootRegion.v[5]
      rootMaximumHeight == rootRegion.v[6]
      tileScale == TileScale(level)
      childWidth == Times(tileScale, Rectangle_width(rectangle))
      west == negativePiToPi(Plus(rectangle.west, Times(Whole(x), childWidth)))
      east == negativePiToPi(Plus(west, childWidth))
      childHeight == Times(tileScale, Rectangle_height(rectangle))
      south == negativePiToPi(Plus(rectangle.south, Times(Whole(y), childHeight)))
      north == negativePiToPi(Plus(south, childHeight))
      thickness == childThickness(tileScale, rootMinimumHeight, rootMaximumHeight)
      minimumHeight == IF defined(z)
                       THEN Plus(rootMinimumHeight, Times(Whole(z.v), thickness))
                       ELSE rootMinimumHeight
      maximumHeight == IF defined(z) THEN Plus(minimumHeight, thickness)
                       ELSE rootMaximumHeight
  IN  IF level = 0 THEN Derived(rootRegion, statics, rootRegion)
      ELSE Derived(Arr(<<west, south, east, north, minimumHeight, maximumHeight>>), s1,
                   rootRegion)

\* the position as it would be without the swap on the odd faces
hilbertPositionOfEvenFace(face, level, x, y) == encode2D(level, x, y)

\* face % 2 === 0 ? encode2D(level, x, y) : encode2D(level, y, x)
hilbertPosition(face, level, x, y) ==
  IF face % 2 = 0 THEN encode2D(level, x, y) ELSE encode2D(level, y, x)

\* lower as it would be if every tile were in the lower half
lowerOfAnyLayer(z) == TRUE

\* (z & 1) === 0
lower(z) == z % 2 = 0

\* deriveBoundingVolumeS2 as it would be without the return at level 0
deriveBoundingVolumeS2AtEveryLevel(boundingVolumeS2, level, x, y, z) ==
  LET baseCellId == getIdFromToken(boundingVolumeS2.v.token)
      face == FaceOf(baseCellId)
      position == hilbertPosition(face, level, x, y)
      cellId == fromFacePositionLevel(face, position, level)
      minimumHeight == boundingVolumeS2.v.minimumHeight
      maximumHeight == boundingVolumeS2.v.maximumHeight
      midpointHeight == Times(Plus(maximumHeight, minimumHeight), Ratio(1, 2))
      minHeight == IF defined(z) /\ ~lower(z.v) THEN midpointHeight ELSE minimumHeight
      maxHeight == IF defined(z) /\ lower(z.v) THEN midpointHeight ELSE maximumHeight
  IN  Obj([token |-> getTokenFromId(cellId),
           minimumHeight |-> minHeight, maximumHeight |-> maxHeight])

deriveBoundingVolumeS2(boundingVolumeS2, level, x, y, z) ==
  LET baseCellId == getIdFromToken(boundingVolumeS2.v.token)
      face == FaceOf(baseCellId)
      position == hilbertPosition(face, level, x, y)
      cellId == fromFacePositionLevel(face, position, level)
      minimumHeight == boundingVolumeS2.v.minimumHeight
      maximumHeight == boundingVolumeS2.v.maximumHeight
      midpointHeight == Times(Plus(maximumHeight, minimumHeight), Ratio(1, 2))
      minHeight == IF defined(z) /\ ~lower(z.v) THEN midpointHeight ELSE minimumHeight
      maxHeight == IF defined(z) /\ lower(z.v) THEN midpointHeight ELSE maximumHeight
  IN  IF level = 0 THEN boundingVolumeS2
      ELSE Obj([token |-> getTokenFromId(cellId),
                minimumHeight |-> minHeight, maximumHeight |-> maxHeight])

S2Extension == "3DTILES_bounding_volume_S2"

\* deriveBoundingVolume as it would be if it looked for a box before a region
deriveBoundingVolumeBoxFirst(statics, rootBoundingVolume, implicitCoordinates) ==
  LET level == implicitCoordinates[1]
      x == implicitCoordinates[2]
      y == implicitCoordinates[3]
      z == IF Len(implicitCoordinates) > 3 THEN Num(implicitCoordinates[4]) ELSE Undefined
      s2Object == Get(Get(rootBoundingVolume, "extensions"), S2Extension)
      childRegion == deriveBoundingRegion(statics, Get(rootBoundingVolume, "region"),
                                          level, x, y, z)
      childBox == deriveBoundingBox(statics, Get(rootBoundingVolume, "box"),
                                    level, x, y, z)
  IN  IF hasExtension(rootBoundingVolume, S2Extension)
      THEN Derived(Obj("extensions" :>
                         Obj(S2Extension :> deriveBoundingVolumeS2(s2Object, level, x, y, z))),
                   statics, rootBoundingVolume)
      ELSE IF defined(Get(rootBoundingVolume, "box"))
      THEN Derived(Obj("box" :> childBox.value), childBox.statics,
                   Obj([rootBoundingVolume.v EXCEPT !["box"] = childBox.root]))
      ELSE IF defined(Get(rootBoundingVolume, "region"))
      THEN Derived(Obj("region" :> childRegion.value), childRegion.statics,
                   Obj([rootBoundingVolume.v EXCEPT !["region"] = childRegion.root]))
      ELSE Derived(Undefined, statics, rootBoundingVolume)

deriveBoundingVolume(statics, rootBoundingVolume, implicitCoordinates) ==
  LET level == implicitCoordinates[1]
      x == implicitCoordinates[2]
      y == implicitCoordinates[3]
      z == IF Len(implicitCoordinates) > 3 THEN Num(implicitCoordinates[4]) ELSE Undefined
      s2Object == Get(Get(rootBoundingVolume, "extensions"), S2Extension)
      childRegion == deriveBoundingRegion(statics, Get(rootBoundingVolume, "region"),
                                          level, x, y, z)
      childBox == deriveBoundingBox(statics, Get(rootBoundingVolume, "box"),
                                    level, x, y, z)
  IN  IF hasExtension(rootBoundingVolume, S2Extension)
      THEN Derived(Obj("extensions" :>
                         Obj(S2Extension :> deriveBoundingVolumeS2(s2Object, level, x, y, z))),
                   statics, rootBoundingVolume)
      ELSE IF defined(Get(rootBoundingVolume, "region"))
      THEN Derived(Obj("region" :> childRegion.value), childRegion.statics,
                   Obj([rootBoundingVolume.v EXCEPT !["region"] = childRegion.root]))
      ELSE IF defined(Get(rootBoundingVolume, "box"))
      THEN Derived(Obj("box" :> childBox.value), childBox.statics,
                   Obj([rootBoundingVolume.v EXCEPT !["box"] = childBox.root]))
      ELSE Derived(Undefined, statics, rootBoundingVolume)

(***************************************************************************)
(* The root volumes and the coordinates that deriveBoundingVolume is       *)
(* called with                                                             *)
(***************************************************************************)
\* the deepest level of a tile
MaxLevel == 2

Wholes(ns) == Arr([i \in 1..Len(ns) |-> Whole(ns[i])])
\* center (0, 0, 0) with half-axes 10 * identity, and a skewed box
RootBoxes ==
  {Wholes(<<0, 0, 0, 10, 0, 0, 0, 10, 0, 0, 0, 10>>),
   Wholes(<<1, 2, 3, 4, 0, 0, 2, 6, 0, 0, 0 - 2, 8>>)}
\* a region east of Greenwich, one across the antimeridian, and the globe
RootRegions ==
  {Arr(<<Whole(0), Whole(0), Ratio(1, 2), Ratio(1, 4), Whole(0), Whole(100)>>),
   Arr(<<Ratio(3, 4), Ratio(0 - 1, 4), Ratio(0 - 3, 4), Ratio(1, 4),
         Whole(0 - 10), Whole(30)>>),
   Arr(<<Whole(0 - 1), Ratio(0 - 1, 2), Whole(1), Ratio(1, 2), Whole(1), Whole(9)>>)}
\* the cells "1" (face 0), "3" (face 1) and "04" (face 0, level 1)
BoundingVolumeS2(token, minimumHeight, maximumHeight) ==
  Obj([token |-> Str(token), minimumHeight |-> Whole(minimumHeight),
       maximumHeight |-> Whole(maximumHeight)])
RootS2Volumes ==
  {BoundingVolumeS2(<<1>>, 0, 10), BoundingVolumeS2(<<3>>, 0 - 4, 6),
   BoundingVolumeS2(<<0, 4>>, 2, 2)}
SphereVolume == Obj("sphere" :> Wholes(<<0, 0, 0, 5>>))

\* a volume with a box, a region and an S2 cell
MixedVolume ==
  Obj(("box" :> Wholes(<<0, 0, 0, 10, 0, 0, 0, 10, 0, 0, 0, 10>>))
        @@ ("region" :> Arr(<<Whole(0), Whole(0), Ratio(1, 2), Ratio(1, 4),
                              Whole(0), Whole(100)>>))
        @@ ("extensions" :> Obj(S2Extension :> BoundingVolumeS2(<<1>>, 0, 10))))

DerivableVolumes ==
  {Obj("box" :> box) : box \in RootBoxes}
    \cup {Obj("region" :> region) : region \in RootRegions}
    \cup {Obj("extensions" :> Obj(S2Extension :> s2)) : s2 \in RootS2Volumes}

\* volumes with more than one representation: a region and a box, a box
\* and a sphere, an S2 cell with a region and a sphere
RegionAndBox ==
  Obj(("region" :> Arr(<<Whole(0), Whole(0), Ratio(1, 2), Ratio(1, 4),
                         Whole(0), Whole(100)>>))
        @@ ("box" :> Wholes(<<1, 2, 3, 4, 0, 0, 2, 6, 0, 0, 0 - 2, 8>>)))
BoxAndSphere ==
  Obj(("box" :> Wholes(<<1, 2, 3, 4, 0, 0, 2, 6, 0, 0, 0 - 2, 8>>))
        @@ ("sphere" :> Wholes(<<0, 0, 0, 5>>)))
S2AndSphere ==
  Obj(("sphere" :> Wholes(<<0, 0, 0, 5>>))
        @@ ("region" :> Arr(<<Whole(0), Whole(0), Ratio(1, 2), Ratio(1, 4),
                              Whole(0), Whole(100)>>))
        @@ ("extensions" :> Obj(S2Extension :> BoundingVolumeS2(<<3>>, 0 - 4, 6))))
CombinedVolumes == {MixedVolume, RegionAndBox, BoxAndSphere, S2AndSphere}

\* [level, x, y] of every tile of a level, and [level, x, y, z] of the
\* tiles at the corners of the level
Along(level) == 0..(Pow2(level) - 1)
Corners(level) == {0, Pow2(level) - 1}
Coordinates ==
  UNION {{<<level, x, y>> : x \in Along(level), y \in Along(level)}
           \cup {<<level, x, y, z>> :
                   x \in Corners(level), y \in Corners(level), z \in Corners(level)} :
         level \in 0..MaxLevel}

\* The calls: a volume that can be subdivided with the coordinates of a
\* tile; one that cannot with any array of numbers.
DeriveCalls ==
  {[root |-> root, coordinates |-> c] : root \in DerivableVolumes, c \in Coordinates}
    \cup {[root |-> root, coordinates |-> c] :
            root \in CombinedVolumes, c \in {k \in Coordinates : k[1] <= 1}}
    \cup {[root |-> root, coordinates |-> c] :
            root \in {SphereVolume, Obj(<<>>)},
            c \in Coordinates \cup {<<>>, <<1>>, <<1, 0>>}}

\* The calls that come before the one that is looked at: those for the root
\* tile and for its children on the diagonal.
EarlierCalls ==
  {c \in DeriveCalls :
     /\ Len(c.coordinates) >= 1 => c.coordinates[1] <= 1
     /\ Len(c.coordinates) >= 3 => c.coordinates[2] = c.coordinates[3]}

(***************************************************************************)
(* getJsonBufferPadded.  A JSON value is undefined, null, a number, a      *)
(* string, an array, or an object, which is the list of its members in     *)
(* the order of insertion.                                                 *)
(***************************************************************************)
Null == [t |-> "null"]
Member(key, value) == [key |-> key, value |-> value]
JsonObject(members) == [t |-> "jsonobject", v |-> members]

\* the decimal digits of a natural number, as code units
RECURSIVE Digits(_)
Digits(n) == IF n < 10 THEN <<48 + n>> ELSE Digits(n \div 10) \o <<48 + (n % 10)>>

\* the quoted form of a string: a quote and a backslash are escaped
Quote(string) ==
  <<34>> \o Concat([i \in 1..Len(string) |->
                      IF string[i] \in {34, 92} THEN <<92, string[i]>>
                      ELSE <<string[i]>>]) \o <<34>>

\* the parts of a list with commas between them
Joined(parts) ==
  Concat([i \in 1..Len(parts) |-> IF i = 1 THEN parts[i] ELSE <<44>> \o parts[i]])

\* JSON.stringify(json), as code units
RECURSIVE JSON_stringify(_)
JSON_stringify(json) ==
  CASE json.t = "null" -> <<110, 117, 108, 108>>
    [] json.t = "num" -> Digits(json.v)
    [] json.t = "str" -> Quote(json.v)
    [] json.t = "arr" ->
         <<91>> \o Joined([i \in 1..Len(json.v) |-> JSON_stringify(json.v[i])]) \o <<93>>
    [] json.t = "jsonobject" ->
         <<123>> \o Joined([i \in 1..Len(json.v) |->
                              Quote(json.v[i].key) \o <<58>>
                                \o JSON_stringify(json.v[i].value)]) \o <<125>>

\* Object.keys(json).length: the members of an object, the elements of an
\* array, the code units of a string, nothing for a number
KeyCount(json) ==
  IF json.t \in {"jsonobject", "arr", "str"} THEN Len(json.v) ELSE 0

\* Cesium.defined: neither undefined nor null
Cesium_defined(value) == value.t \notin {"undefined", "null"}
\* Cesium.defaultValue(a, b)
Cesium_defaultValue(a, b) == IF Cesium_defined(a) THEN a ELSE b

\* Buffer.byteLength(string) and Buffer.from(string): UTF-8
Buffer_byteLength(string) == Len(TextEncode(string))
Buffer_from(string) == TextEncode(string)

\* getJsonBufferPadded as it would be if it did not count the byte offset
getJsonBufferPaddedFromZero(json, byteOffsetArgument) ==
  LET string == JSON_stringify(json)
      boundary == 8
      byteLength == Buffer_byteLength(string)
      remainder == byteLength % boundary
      padding == IF remainder = 0 THEN 0 ELSE boundary - remainder
      whitespace == [i \in 1..padding |-> 32]
  IN  IF ~Cesium_defined(json) \/ KeyCount(json) = 0 THEN <<>>
      ELSE Buffer_from(string \o whitespace)

\* getJsonBufferPadded(json, byteOffset)
getJsonBufferPadded(json, byteOffsetArgument) ==
  LET byteOffset == Cesium_defaultValue(byteOffsetArgument, Num(0)).v
      string == JSON_stringify(json)
      boundary == 8
      byteLength == Buffer_byteLength(string)
      remainder == (byteOffset + byteLength) % boundary
      padding == IF remainder = 0 THEN 0 ELSE boundary - remainder
      whitespace == [i \in 1..padding |-> 32]
  IN  IF ~Cesium_defined(json) \/ KeyCount(json) = 0 THEN <<>>
      ELSE Buffer_from(string \o whitespace)

\* the largest byte offset that a call gives
MaxByteOffset == 9

\* objects with one and two members, with a string of two bytes in UTF-8,
\* with a surrogate pair, with a quote; arrays; values without keys
JsonValues ==
  {Undefined, Null, JsonObject(<<>>), Arr(<<>>), Num(5),
   JsonObject(<<Member(<<97>>, Num(1))>>),
   JsonObject(<<Member(<<97>>, Str(<<233>>))>>),
   JsonObject(<<Member(<<107>>, Str(<<97, 98>>)), Member(<<110>>, Num(12))>>),
   JsonObject(<<Member(<<115>>, Str(<<34>>))>>),
   JsonObject(<<Member(<<101>>, Str(<<55357, 56832>>))>>),
   JsonObject(<<Member(<<111>>, JsonObject(<<>>)), Member(<<122>>, Null)>>),
   JsonObject(<<Member(<<98, 97, 116, 99, 104>>, Num(1234))>>),
   Arr(<<Num(1), Num(2)>>), Str(<<97, 98, 99>>)}
ByteOffsets == {Undefined} \cup {Num(n) : n \in 0..MaxByteOffset}

(***************************************************************************)
(* TilesetTarget: the contract of begin, addEntry and end that the         *)
(* implementations TilesetTargetFs, TilesetTarget3tz, TilesetTarget3dtiles *)
(* and TilesetInMemory share.  A target is closed when it is created,      *)
(* begin opens it, end closes it.  A call gives the target after it and    *)
(* how it ended: it returned, it threw, or its promise was rejected.       *)
(***************************************************************************)
TilesetTargets == {"TilesetTargetFs", "TilesetTarget3tz", "TilesetTarget3dtiles", "TilesetInMemory"}
TilesetTarget(kind) == [kind |-> kind, isOpen |-> FALSE]
Called(self, ending) == [self |-> self, ending |-> ending]

\* begin(fullOutputName, overwrite)
TilesetTarget_begin(self) ==
  IF self.isOpen THEN Called(self, "thrown")
  ELSE Called([self EXCEPT !.isOpen = TRUE], "returned")

\* addEntry(key, content)
TilesetTarget_addEntry(self) ==
  IF ~self.isOpen THEN Called(self, "thrown")
  ELSE Called(self, "returned")

\* end as it would be if it left the target open
TilesetTarget_endLeavingOpen(self) ==
  IF ~self.isOpen THEN Called(self, "rejected")
  ELSE Called(self, "returned")

\* end()
TilesetTarget_end(self) ==
  IF ~self.isOpen THEN Called(self, "rejected")
  ELSE Called([self EXCEPT !.isOpen = FALSE], "returned")

\* the longest sequence of calls on one target
MaxCalls == 4

(***************************************************************************)
(* The state: the call of the builder and its outcome, the string property *)
(* model that was constructed, and the last read of it; the row facade,    *)
(* the last answer it gave and the reads of property models it made; the   *)
(* static scratch objects of BoundingVolumeDerivation and its last call;   *)
(* the array property model that was constructed and the last read of it;  *)
(* the last call of getJsonBufferPadded; a tileset target with the calls   *)
(* that were made on it.                                                   *)
(***************************************************************************)
VARIABLES call, outcome, stringModel, read, entity, answer, modelReads,
          scratch, derived, arrayModel, arrayRead, padded, target

codecVars == <<call, outcome, stringModel, read>>
entityVars == <<entity, answer, modelReads>>
deriveVars == <<scratch, derived>>
arrayVars == <<arrayModel, arrayRead>>
jsonVars == <<padded>>
targetVars == <<target>>
otherVars == <<arrayVars, jsonVars, targetVars>>
vars == <<call, outcome, stringModel, read, entity, answer, modelReads, scratch, derived, arrayModel, arrayRead, padded, target>>

None == [t |-> "none"]

InitCodec ==
  /\ call = None
  /\ outcome = None
  /\ stringModel = None
  /\ read = None

InitEntity ==
  /\ entity = None
  /\ answer = None
  /\ modelReads = <<>>

InitDerive ==
  /\ scratch = NewScratch
  /\ derived = None

InitArray ==
  /\ arrayModel = None
  /\ arrayRead = None

InitJson == padded = None

InitTarget == target = None

Init == InitCodec /\ InitEntity /\ InitDerive /\ InitArray /\ InitJson /\ InitTarget

\* BinaryPropertyTables.createBinaryPropertyTable, called once
CreateBinaryPropertyTable ==
  /\ call = None /\ stringModel = None
  /\ \E c \in BuilderCalls :
       /\ call' = c
       /\ outcome' = [t |-> "outcome"] @@
                     createBinaryPropertyTable(c.schema, c.className, c.propertyName,
                                               c.values, c.arrayOffsetType,
                                               c.stringOffsetType)
  /\ UNCHANGED <<stringModel, read, entityVars, deriveVars, otherVars>>

\* the property of the table that was built
BuiltProperty == Get(outcome.table.propertyTable.properties, call.propertyName)
BuiltClassProperty == Get(outcome.table.metadataClass.properties, call.propertyName).v
BuiltBuffer(reference) == outcome.table.binaryBufferData.bufferViewsData[reference.v + 1]
PackedStringOffsetType == defaultValue(call.stringOffsetType, Str("UINT32")).v
PackedArrayOffsetType == defaultValue(call.arrayOffsetType, Str("UINT32")).v

\* A string property model is constructed over the values and the string
\* offsets of the table that was built, with the offset type the offsets
\* were packed with.
NewStringPropertyModelOfTable ==
  /\ outcome.t = "outcome" /\ outcome.ok
  /\ stringModel = None
  /\ BuiltClassProperty.type = "STRING" /\ ~BuiltClassProperty.array
  /\ PackedStringOffsetType \in UnsignedTypes
  /\ stringModel' = StringPropertyModel(BuiltBuffer(BuiltProperty.values),
                                        BuiltBuffer(BuiltProperty.stringOffsets),
                                        PackedStringOffsetType)
  /\ UNCHANGED <<call, outcome, read, entityVars, deriveVars, otherVars>>

\* buffers that did not come from the builder
ForeignValuesBuffers == {<<>>, <<97, 98>>, <<97, 98, 99, 100, 101>>}
ForeignOffsetsBuffers == SeqsUpTo({0, 2, 5, 9}, MaxRows + 1)

\* A string property model is constructed over buffers from elsewhere.
NewStringPropertyModelOfBuffers ==
  /\ call = None
  /\ stringModel = None
  /\ \E valuesBuffer \in ForeignValuesBuffers,
        stringOffsetsBuffer \in ForeignOffsetsBuffers :
       stringModel' = StringPropertyModel(valuesBuffer, stringOffsetsBuffer, "UINT8")
  /\ UNCHANGED <<call, outcome, read, entityVars, deriveVars, otherVars>>

\* the entries of the string offsets buffer of the model, minus one
RowCount(model) == (Len(model.stringOffsetsBuffer) \div ByteSize(model.stringOffsetType)) - 1

\* StringPropertyModel.getPropertyValue(index)
GetStringPropertyValue ==
  /\ stringModel # None
  /\ \E index \in (0 - 1)..(MaxRows + 1) :
       read' = [t |-> "read", index |-> index,
                result |-> StringPropertyModel_getPropertyValue(stringModel, index)]
  /\ UNCHANGED <<call, outcome, stringModel, entityVars, deriveVars, otherVars>>

\* the array offsets buffer of the table that was built, when it has one
BuiltArrayOffsets ==
  IF defined(BuiltProperty.arrayOffsets) THEN Buf(BuiltBuffer(BuiltProperty.arrayOffsets))
  ELSE Undefined

\* A string array property model is constructed over the buffers of the
\* table that was built, with the offset types they were packed with and
\* the count of the class property.
NewStringArrayPropertyModelOfTable ==
  /\ outcome.t = "outcome" /\ outcome.ok
  /\ arrayModel = None
  /\ BuiltClassProperty.type = "STRING" /\ BuiltClassProperty.array
  /\ PackedStringOffsetType \in UnsignedTypes
  /\ PackedArrayOffsetType \in UnsignedTypes
  /\ arrayModel' = StringArrayPropertyModel(BuiltBuffer(BuiltProperty.values),
                                            BuiltArrayOffsets, PackedArrayOffsetType,
                                            BuiltBuffer(BuiltProperty.stringOffsets),
                                            PackedStringOffsetType,
                                            BuiltClassProperty.count)
  /\ UNCHANGED <<arrayRead, codecVars, entityVars, deriveVars, jsonVars, targetVars>>

\* the component type of the numbers of the table that was built: that of
\* the class property, or the value type of its enum, UINT16 by default
BuiltComponentType ==
  IF BuiltClassProperty.type = "ENUM"
  THEN defaultValue(Get(call.schema.enums, BuiltClassProperty.enumType.v).v.valueType,
                    Str("UINT16")).v
  ELSE BuiltClassProperty.componentType.v

\* A numeric array property model is constructed over the buffers of the
\* table that was built.
NewNumericArrayPropertyModelOfTable ==
  /\ outcome.t = "outcome" /\ outcome.ok
  /\ arrayModel = None
  /\ BuiltClassProperty.type \in {"SCALAR", "VEC2", "ENUM"} /\ BuiltClassProperty.array
  /\ PackedArrayOffsetType \in UnsignedTypes
  /\ arrayModel' = NumericArrayPropertyModel(BuiltClassProperty.type,
                                             BuiltBuffer(BuiltProperty.values),
                                             BuiltComponentType,
                                             BuiltArrayOffsets, PackedArrayOffsetType,
                                             BuiltClassProperty.count)
  /\ UNCHANGED <<arrayRead, codecVars, entityVars, deriveVars, jsonVars, targetVars>>

\* NumericArrayPropertyModel.getPropertyValue(index)
GetNumericArrayPropertyValue ==
  /\ arrayModel # None /\ arrayModel.t = "NumericArrayPropertyModel"
  /\ \E index \in (0 - 1)..(MaxRows + 1) :
       arrayRead' = [t |-> "read", index |-> index,
                     result |-> NumericArrayPropertyModel_getPropertyValue(arrayModel, index)]
  /\ UNCHANGED <<arrayModel, codecVars, entityVars, deriveVars, jsonVars, targetVars>>

\* StringArrayPropertyModel.getPropertyValue(index)
GetStringArrayPropertyValue ==
  /\ arrayModel # None /\ arrayModel.t = "StringArrayPropertyModel"
  /\ \E index \in (0 - 1)..(MaxRows + 1) :
       arrayRead' = [t |-> "read", index |-> index,
                     result |-> StringArrayPropertyModel_getPropertyValue(arrayModel, index)]
  /\ UNCHANGED <<arrayModel, codecVars, entityVars, deriveVars, jsonVars, targetVars>>

(***************************************************************************)
(* BinaryMetadataEntityModel: the row facade over a PropertyTableModel     *)
(***************************************************************************)

\* PropertyTableModel: the class properties, the property table properties
\* and the property models of a table, each looked up by property id
getClassProperty(propertyTableModel, propertyId) ==
  Get(propertyTableModel.classProperties, propertyId)
getPropertyTableProperty(propertyTableModel, propertyId) ==
  Get(propertyTableModel.tableProperties, propertyId)
getPropertyModel(propertyTableModel, propertyId) ==
  Get(propertyTableModel.propertyModels, propertyId)

\* PropertyModel.getPropertyValue(index): the raw value of the row
PropertyModel_getPropertyValue(propertyModel, index) ==
  IF index >= 0 /\ index < Len(propertyModel.v)
  THEN Ok(propertyModel.v[index + 1])
  ELSE Throw("IndexError", "row index out of range")

\* MetadataValues.processValue: the raw value times the scale plus the
\* offset, each the override when it is defined, else the one of the class
\* property when that is defined, else left out
processValue(classProperty, offsetOverride, scaleOverride, value) ==
  LET offset == defaultValue(offsetOverride, classProperty.offset)
      scale == defaultValue(scaleOverride, classProperty.scale)
      scaled == IF defined(scale) THEN value.v * scale.v ELSE value.v
  IN  Num(IF defined(offset) THEN scaled + offset.v ELSE scaled)

\* new BinaryMetadataEntityModel(propertyTableModel, entityIndex, semanticToPropertyId)
BinaryMetadataEntityModel(propertyTableModel, entityIndex, semanticToPropertyId) ==
  [t |-> "BinaryMetadataEntityModel",
   propertyTableModel |-> propertyTableModel,
   entityIndex |-> entityIndex,
   semanticToPropertyId |-> semanticToPropertyId]

\* what a call of the facade gives, and the reads of property models it made
Answered(result, reads) == [result |-> result, reads |-> reads]

\* getPropertyValue as it would be if the property model were looked up
\* before the property table property
getPropertyValueModelFirst(self, propertyId) ==
  LET propertyTableModel == self.propertyTableModel
      classProperty == getClassProperty(propertyTableModel, propertyId)
      propertyTableProperty == getPropertyTableProperty(propertyTableModel, propertyId)
      propertyModel == getPropertyModel(propertyTableModel, propertyId)
      value == PropertyModel_getPropertyValue(propertyModel, self.entityIndex)
      thisRead == <<[propertyId |-> propertyId, index |-> self.entityIndex]>>
  IN  IF ~defined(classProperty)
      THEN Answered(Throw("MetadataError", "The class does not define a property"), <<>>)
      ELSE IF ~defined(propertyModel)
      THEN Answered(Throw("MetadataError",
                          "The property table does not define a property model"), <<>>)
      ELSE IF ~defined(propertyTableProperty)
      THEN Answered(Throw("MetadataError",
                          "The property table does not define a property"), <<>>)
      ELSE IF ~value.ok THEN Answered(value, thisRead)
      ELSE Answered(Ok(processValue(classProperty.v, propertyTableProperty.v.offset,
                                    propertyTableProperty.v.scale, value.v)),
                    thisRead)

\* getPropertyValue as it would be if the offset and scale of the class
\* property were passed as the overrides
getPropertyValueClassFirst(self, propertyId) ==
  LET propertyTableModel == self.propertyTableModel
      classProperty == getClassProperty(propertyTableModel, propertyId)
      propertyTableProperty == getPropertyTableProperty(propertyTableModel, propertyId)
      propertyModel == getPropertyModel(propertyTableModel, propertyId)
      value == PropertyModel_getPropertyValue(propertyModel, self.entityIndex)
      thisRead == <<[propertyId |-> propertyId, index |-> self.entityIndex]>>
  IN  IF ~defined(classProperty)
      THEN Answered(Throw("MetadataError", "The class does not define a property"), <<>>)
      ELSE IF ~defined(propertyTableProperty)
      THEN Answered(Throw("MetadataError",
                          "The property table does not define a property"), <<>>)
      ELSE IF ~defined(propertyModel)
      THEN Answered(Throw("MetadataError",
                          "The property table does not define a property model"), <<>>)
      ELSE IF ~value.ok THEN Answered(value, thisRead)
      ELSE Answered(Ok(processValue(propertyTableProperty.v, classProperty.v.offset,
                                    classProperty.v.scale, value.v)),
                    thisRead)

\* BinaryMetadataEntityModel.getPropertyValue(propertyId)
BinaryMetadataEntityModel_getPropertyValue(self, propertyId) ==
  LET propertyTableModel == self.propertyTableModel
      classProperty == getClassProperty(propertyTableModel, propertyId)
      propertyTableProperty == getPropertyTableProperty(propertyTableModel, propertyId)
      propertyModel == getPropertyModel(propertyTableModel, propertyId)
      value == PropertyModel_getPropertyValue(propertyModel, self.entityIndex)
      thisRead == <<[propertyId |-> propertyId, index |-> self.entityIndex]>>
      offsetOverride == propertyTableProperty.v.offset
      scaleOverride == propertyTableProperty.v.scale
  IN  IF ~defined(classProperty)
      THEN Answered(Throw("MetadataError", "The class does not define a property"), <<>>)
      ELSE IF ~defined(propertyTableProperty)
      THEN Answered(Throw("MetadataError",
                          "The property table does not define a property"), <<>>)
      ELSE IF ~defined(propertyModel)
      THEN Answered(Throw("MetadataError",
                          "The property table does not define a property model"), <<>>)
      ELSE IF ~value.ok THEN Answered(value, thisRead)
      ELSE Answered(Ok(processValue(classProperty.v, offsetOverride, scaleOverride,
                                    value.v)),
                    thisRead)

\* getPropertyValueBySemantic as it would be if an unmapped semantic were
\* an error
getPropertyValueBySemanticStrict(self, semantic) ==
  LET propertyId == Get(self.semanticToPropertyId, semantic)
  IN  IF ~defined(propertyId)
      THEN Answered(Throw("MetadataError", "The semantic is not mapped"), <<>>)
      ELSE BinaryMetadataEntityModel_getPropertyValue(self, propertyId.v)

\* BinaryMetadataEntityModel.getPropertyValueBySemantic(semantic)
BinaryMetadataEntityModel_getPropertyValueBySemantic(self, semantic) ==
  LET propertyId == Get(self.semanticToPropertyId, semantic)
  IN  IF ~defined(propertyId) THEN Answered(Ok(Undefined), <<>>)
      ELSE BinaryMetadataEntityModel_getPropertyValue(self, propertyId.v)

\* the property ids and semantics that the calls use
PropertyIds == {"p", "q", "r"}
Semantics == {"NAME", "ID"}
\* the largest row index of a facade
MaxEntityIndex == 2

Optional(S) == {Undefined} \cup {Num(n) : n \in S}
EntityClassProperties ==
  {Obj([offset |-> o, scale |-> sc]) : o \in Optional({10}), sc \in Optional({2})}
EntityTableProperties ==
  {Obj([offset |-> o, scale |-> sc]) : o \in Optional({100}), sc \in Optional({3})}
\* a column of raw values, one per row
Column(raw) == Arr([i \in 1..Len(raw) |-> Num(raw[i])])

\* The tables: property "q" is complete, property "p" may lack its class
\* property, its property table property or its property model; "r" is
\* defined nowhere.
With(id, x) == IF defined(x) THEN id :> x ELSE <<>>
PropertyTableModels ==
  {[classProperties |-> Obj(With("p", cp) @@ ("q" :> Obj([offset |-> Undefined, scale |-> Num(5)]))),
    tableProperties |-> Obj(With("p", tp) @@ ("q" :> Obj([offset |-> Num(1), scale |-> Undefined]))),
    propertyModels |-> Obj(With("p", pm) @@ ("q" :> Column(<<4, 6>>)))] :
     cp \in EntityClassProperties \cup {Undefined},
     tp \in EntityTableProperties \cup {Undefined},
     pm \in {Column(<<1, 7>>), Undefined}}

SemanticMaps ==
  {Obj(<<>>), Obj("NAME" :> Str("p")), Obj("NAME" :> Str("q")),
   Obj(("NAME" :> Str("r")) @@ ("ID" :> Str("p")))}

NewBinaryMetadataEntityModel ==
  /\ entity = None
  /\ \E propertyTableModel \in PropertyTableModels,
        entityIndex \in 0..MaxEntityIndex,
        semanticToPropertyId \in SemanticMaps :
       entity' = BinaryMetadataEntityModel(propertyTableModel, entityIndex,
                                           semanticToPropertyId)
  /\ UNCHANGED <<answer, modelReads, codecVars, deriveVars, otherVars>>

GetPropertyValue ==
  /\ entity # None
  /\ \E propertyId \in PropertyIds :
       LET got == BinaryMetadataEntityModel_getPropertyValue(entity, propertyId)
       IN  /\ answer' = [t |-> "getPropertyValue", arg |-> propertyId,
                         result |-> got.result]
           /\ modelReads' = got.reads
  /\ UNCHANGED <<entity, codecVars, deriveVars, otherVars>>

GetPropertyValueBySemantic ==
  /\ entity # None
  /\ \E semantic \in Semantics :
       LET got == BinaryMetadataEntityModel_getPropertyValueBySemantic(entity, semantic)
       IN  /\ answer' = [t |-> "getPropertyValueBySemantic", arg |-> semantic,
                         result |-> got.result]
           /\ modelReads' = got.reads
  /\ UNCHANGED <<entity, codecVars, deriveVars, otherVars>>

NextEntity ==
  \/ NewBinaryMetadataEntityModel
  \/ GetPropertyValue
  \/ GetPropertyValueBySemantic

SpecEntity == Init /\ [][NextEntity]_vars

\* getJsonBufferPadded(json, byteOffset), called once
GetJsonBufferPadded ==
  /\ padded = None
  /\ \E json \in JsonValues, byteOffset \in ByteOffsets :
       padded' = [t |-> "padded", json |-> json, byteOffset |-> byteOffset,
                  result |-> getJsonBufferPadded(json, byteOffset)]
  /\ UNCHANGED <<codecVars, entityVars, deriveVars, arrayVars, targetVars>>

NextJson == GetJsonBufferPadded

SpecJson == Init /\ [][NextJson]_vars

\* creationFunction(): a new target of one of the implementations
NewTilesetTarget ==
  /\ target = None
  /\ \E kind \in TilesetTargets :
       target' = [t |-> "target", self |-> TilesetTarget(kind), calls |-> <<>>]
  /\ UNCHANGED <<codecVars, entityVars, deriveVars, arrayVars, jsonVars>>

\* the target after a call, with the call and its ending added to the calls
AfterCall(name, called) ==
  [target EXCEPT !.self = called.self,
                 !.calls = Append(@, [name |-> name, ending |-> called.ending])]

\* tilesetTarget.begin(targetName, true)
Begin ==
  /\ target # None
  /\ Len(target.calls) < MaxCalls
  /\ target' = AfterCall("begin", TilesetTarget_begin(target.self))
  /\ UNCHANGED <<codecVars, entityVars, deriveVars, arrayVars, jsonVars>>

\* tilesetTarget.addEntry("tileset.json", Buffer.alloc(1))
AddEntry ==
  /\ target # None
  /\ Len(target.calls) < MaxCalls
  /\ target' = AfterCall("addEntry", TilesetTarget_addEntry(target.self))
  /\ UNCHANGED <<codecVars, entityVars, deriveVars, arrayVars, jsonVars>>

\* await tilesetTarget.end()
End ==
  /\ target # None
  /\ Len(target.calls) < MaxCalls
  /\ target' = AfterCall("end", TilesetTarget_end(target.self))
  /\ UNCHANGED <<codecVars, entityVars, deriveVars, arrayVars, jsonVars>>

NextTarget ==
  \/ NewTilesetTarget
  \/ Begin
  \/ AddEntry
  \/ End

SpecTarget == Init /\ [][NextTarget]_vars

NextArray ==
  \/ CreateBinaryPropertyTable
  \/ NewStringArrayPropertyModelOfTable
  \/ GetStringArrayPropertyValue
  \/ NewNumericArrayPropertyModelOfTable
  \/ GetNumericArrayPropertyValue

SpecArray == Init /\ [][NextArray]_vars

\* An earlier call of deriveBoundingVolume, whose result the run does not
\* keep: it leaves its numbers in the scratch objects.
DeriveEarlier ==
  /\ derived = None
  /\ \E c \in EarlierCalls :
       scratch' = deriveBoundingVolume(scratch, c.root, c.coordinates).statics
  /\ UNCHANGED <<derived, codecVars, entityVars, otherVars>>

\* deriveBoundingVolume(rootBoundingVolume, implicitCoordinates), called
\* after any number of earlier calls
DeriveBoundingVolume ==
  /\ derived = None
  /\ \E c \in DeriveCalls :
       LET got == deriveBoundingVolume(scratch, c.root, c.coordinates)
       IN  /\ derived' = [t |-> "derived", root |-> c.root,
                          coordinates |-> c.coordinates, value |-> got.value,
                          before |-> scratch, rootAfter |-> got.root]
           /\ scratch' = got.statics
  /\ UNCHANGED <<codecVars, entityVars, otherVars>>

NextDerive ==
  \/ DeriveEarlier
  \/ DeriveBoundingVolume

SpecDerive == Init /\ [][NextDerive]_vars

Next ==
  \/ CreateBinaryPropertyTable
  \/ NewStringPropertyModelOfTable
  \/ NewStringPropertyModelOfBuffers
  \/ GetStringPropertyValue


Spec == Init /\ [][Next]_vars

(***************************************************************************)
(* Properties of the builder and of the string property model (Spec)       *)
(***************************************************************************)
Built == outcome.t = "outcome" /\ outcome.ok
BuiltString == Built /\ BuiltClassProperty.type = "STRING"
ReadOfTable == read.t = "read" /\ call # None

\* the entries of an offsets buffer, read at the given unsigned offset type
Entries(buffer, offsetType) ==
  [i \in 1..(Len(buffer) \div ByteSize(offsetType)) |->
     ReadUnsigned(buffer, i - 1, offsetType)]

\* a string without a lone surrogate: every string that has a UTF-8 form
NoLoneSurrogate(s) ==
  \A i \in 1..Len(s) :
    /\ IsHighSurrogate(s[i]) => (i < Len(s) /\ IsLowSurrogate(s[i + 1]))
    /\ IsLowSurrogate(s[i]) => (i > 1 /\ IsHighSurrogate(s[i - 1]))

\* C1: for any list of strings given as the values of a non-array STRING
\* property and default (UINT32) string offsets, reading row i of the
\* string property model over the two buffers that the builder made
\* returns exactly the i-th input string, for every row i.  (Stated for
\* the columns whose strings have no lone surrogate, which TextEncoder
\* cannot encode.)
C1_StringRoundTrip ==
  (/\ ReadOfTable
   /\ call.stringOffsetType = Undefined
   /\ \A i \in 1..Len(call.values.v) : NoLoneSurrogate(call.values.v[i].v)
   /\ read.index >= 0 /\ read.index < Len(call.values.v))
  => (read.result.ok /\ read.result.v = call.values.v[read.index + 1])

\* A string survives TextEncoder and TextDecoder unchanged when it has no
\* lone surrogate and does not begin with U+FEFF.
WellFormed(s) == NoLoneSurrogate(s) /\ (s # <<>> => s[1] # 65279)

\* The round trip of C1 for columns of well-formed strings.
StringRoundTripOfWellFormed ==
  (/\ ReadOfTable
   /\ call.stringOffsetType = Undefined
   /\ \A i \in 1..Len(call.values.v) : WellFormed(call.values.v[i].v)
   /\ read.index >= 0 /\ read.index < Len(call.values.v))
  => (read.result.ok /\ read.result.v = call.values.v[read.index + 1])

\* The instance of C1: the values "ab", "cde" give a 5-byte values buffer
\* and the string offsets 0, 2, 5, and row 1 reads "cde".
StringRoundTripInstance ==
  (Built /\ call.values = Arr(<<Str(<<97, 98>>), Str(<<99, 100, 101>>)>>)
         /\ BuiltString /\ call.stringOffsetType = Undefined)
  => /\ Len(BuiltBuffer(BuiltProperty.values)) = 5
     /\ Entries(BuiltBuffer(BuiltProperty.stringOffsets), "UINT32") = <<0, 2, 5>>
     /\ (read.t = "read" /\ read.index = 1) => read.result = Ok(Str(<<99, 100, 101>>))

NonDecreasingFromZero(entries) ==
  /\ entries # <<>> /\ entries[1] = 0
  /\ \A i \in 1..(Len(entries) - 1) : entries[i + 1] >= entries[i]

\* C2: every array offsets buffer and every string offsets buffer that the
\* builder makes, read back at the unsigned offset type it was packed
\* with, starts with 0 and never decreases, whatever the input is.
C2_OffsetsMonotone ==
  Built =>
    /\ (defined(BuiltProperty.stringOffsets) /\ PackedStringOffsetType \in UnsignedTypes)
         => NonDecreasingFromZero(
              Entries(BuiltBuffer(BuiltProperty.stringOffsets), PackedStringOffsetType))
    /\ (defined(BuiltProperty.arrayOffsets) /\ PackedArrayOffsetType \in UnsignedTypes)
         => NonDecreasingFromZero(
              Entries(BuiltBuffer(BuiltProperty.arrayOffsets), PackedArrayOffsetType))

\* the enum that the property of the call refers to, when the schema has it
CallIsEnum ==
  /\ outcome.t = "outcome"
  /\ defined(call.schema.classes)
  /\ defined(Get(call.schema.classes, call.className))
  /\ defined(Get(call.schema.classes, call.className).v.properties)
  /\ defined(Get(Get(call.schema.classes, call.className).v.properties, call.propertyName))
  /\ defined(Get(Get(call.schema.classes, call.className).v.properties,
                 call.propertyName).v.enumType)
CallEnumType ==
  Get(Get(call.schema.classes, call.className).v.properties, call.propertyName).v.enumType.v
CallHasEnum ==
  /\ CallIsEnum
  /\ defined(call.schema.enums)
  /\ defined(Get(call.schema.enums, CallEnumType))
CallEnum == Get(call.schema.enums, CallEnumType).v
Defines(metadataEnum, name) ==
  \E i \in 1..Len(metadataEnum.values) : metadataEnum.values[i].name = name
\* the code that the enum assigns to a name it defines
CodeOf(metadataEnum, name) ==
  metadataEnum.values[CHOOSE i \in 1..Len(metadataEnum.values) :
                        metadataEnum.values[i].name = name].value

\* the names of the call: its values, the rows of an array property flattened
CallNames == FlattenLeaves(call.values)

\* C3: for an enum property, the values buffer holds, for each input name,
\* the code that the enum assigns to that name (the `value` of the entry
\* with that `name`), packed at the enum's valueType, UINT16 by default.
C3_EnumCodesWritten ==
  (/\ CallHasEnum
   /\ \A i \in 1..Len(CallNames) : Defines(CallEnum, CallNames[i].v))
  => /\ outcome.ok
     /\ BuiltBuffer(BuiltProperty.values)
          = TypedArrayBytes([i \in 1..Len(CallNames) |->
                               CodeOf(CallEnum, CallNames[i].v)],
                            defaultValue(CallEnum.valueType, Str("UINT16")).v)

\* C4: when the values of an enum property contain a name that the enum
\* does not define, building fails with an error and returns no table.
C4_UnknownEnumNameFatal ==
  (/\ CallHasEnum
   /\ \E i \in 1..Len(CallNames) : ~Defines(CallEnum, CallNames[i].v))
  => (~outcome.ok /\ outcome.table = Undefined)

\* the slice that a read of the string property model computes
ReadSlice == computeSlice(read.index, Buf(stringModel.stringOffsetsBuffer),
                          stringModel.stringOffsetType, Undefined)
\* the offsets entries of the row delimit bytes that the values buffer
\* does not have
RangeOutsideValues ==
  /\ ReadSlice.ok
  /\ \/ ReadSlice.v.offset > Len(stringModel.valuesBuffer)
     \/ ReadSlice.v.offset + ReadSlice.v.length > Len(stringModel.valuesBuffer)

\* C8: reading a string property at a row index that is negative or not
\* below the row count, or whose offsets entries delimit a byte range
\* outside the values buffer, fails with an IndexError.
C8_NoOutOfBoundsRead ==
  (/\ read.t = "read"
   /\ \/ read.index < 0
      \/ read.index >= RowCount(stringModel)
      \/ RangeOutsideValues)
  => (~read.result.ok /\ read.result.error = "IndexError")

\* the schema of the call lacks what the call refers to
CallLacksClasses == ~defined(call.schema.classes)
CallLacksClass ==
  ~CallLacksClasses /\ ~defined(Get(call.schema.classes, call.className))
CallLacksProperties ==
  /\ ~CallLacksClasses /\ ~CallLacksClass
  /\ ~defined(Get(call.schema.classes, call.className).v.properties)
CallLacksProperty ==
  /\ ~CallLacksClasses /\ ~CallLacksClass /\ ~CallLacksProperties
  /\ ~defined(Get(Get(call.schema.classes, call.className).v.properties,
                  call.propertyName))
CallLacksEnum == CallIsEnum /\ ~CallHasEnum

\* C9: the builder throws a MetadataError, creates no buffer and returns
\* no table when the schema has no classes, lacks the class, the class has
\* no properties or lacks the property, and, for a property with an
\* enumType, when the schema has no enums or lacks that enum.
C9_SchemaInconsistencyFatal ==
  (/\ outcome.t = "outcome"
   /\ \/ CallLacksClasses \/ CallLacksClass \/ CallLacksProperties
      \/ CallLacksProperty \/ CallLacksEnum)
  => /\ ~outcome.ok
     /\ outcome.error = "MetadataError"
     /\ outcome.created = <<>>
     /\ outcome.table = Undefined

\* a call for an enum property whose enum the schema lacks has been made
C9_Witness ==
  /\ outcome.t = "outcome"
  /\ CallLacksEnum
  /\ defined(call.schema.enums)
  /\ call.values.v # <<>>
  /\ ~outcome.ok

CallProperty ==
  Get(Get(call.schema.classes, call.className).v.properties, call.propertyName).v
CallHasProperty ==
  /\ outcome.t = "outcome"
  /\ ~CallLacksClasses /\ ~CallLacksClass /\ ~CallLacksProperties /\ ~CallLacksProperty
NotUnsigned(offsetType) == defined(offsetType) /\ offsetType.v \notin UnsignedTypes

\* C10: the offsets buffers are packed with UINT32 when no offset type is
\* requested; a requested offset type that is not one of UINT8, UINT16,
\* UINT32, UINT64 never yields an offsets buffer.
C10_OffsetTypesUnsigned ==
  CallHasProperty =>
    /\ (CallProperty.type = "STRING" /\ NotUnsigned(call.stringOffsetType))
         => ~outcome.ok
    /\ (CallProperty.array /\ ~defined(CallProperty.count)
          /\ NotUnsigned(call.arrayOffsetType))
         => (~outcome.ok /\ Len(outcome.created) <= 1)
    /\ (Built /\ defined(BuiltProperty.stringOffsets)
          /\ ~defined(call.stringOffsetType))
         => Len(BuiltBuffer(BuiltProperty.stringOffsets))
              = 4 * (Len(FlattenLeaves(call.values)) + 1)
    /\ (Built /\ defined(BuiltProperty.arrayOffsets)
          /\ ~defined(call.arrayOffsetType))
         => Len(BuiltBuffer(BuiltProperty.arrayOffsets))
              = 4 * (Len(call.values.v) + 1)

(***************************************************************************)
(* Properties of the row facade (SpecEntity)                               *)
(***************************************************************************)
Asked == answer.t = "getPropertyValue"
AskedClassProperty == getClassProperty(entity.propertyTableModel, answer.arg)
AskedTableProperty == getPropertyTableProperty(entity.propertyTableModel, answer.arg)
AskedModel == getPropertyModel(entity.propertyTableModel, answer.arg)
Failed(message) == answer.result = Throw("MetadataError", message)

\* C5: getPropertyValue(propertyId) fails, with no value and no read of a
\* property model, when the class defines no such property, else when the
\* property table defines no column for it, else when the table has no
\* property model for it; only when all three lookups succeed is the
\* property model read, once, at the row index of the facade.
C5_LookupErrorsInOrder ==
  Asked =>
    /\ ~defined(AskedClassProperty)
         => (Failed("The class does not define a property") /\ modelReads = <<>>)
    /\ (defined(AskedClassProperty) /\ ~defined(AskedTableProperty))
         => (/\ Failed("The property table does not define a property")
             /\ modelReads = <<>>)
    /\ (/\ defined(AskedClassProperty) /\ defined(AskedTableProperty)
        /\ ~defined(AskedModel))
         => (/\ Failed("The property table does not define a property model")
             /\ modelReads = <<>>)
    /\ (/\ defined(AskedClassProperty) /\ defined(AskedTableProperty)
        /\ defined(AskedModel))
         <=> modelReads = <<[propertyId |-> answer.arg, index |-> entity.entityIndex]>>
    /\ modelReads = <<>> => ~answer.result.ok

\* the class defines the property asked for, the table has neither a
\* column nor a property model for it, and the call failed for the column
C5_Witness ==
  /\ Asked
  /\ defined(AskedClassProperty)
  /\ ~defined(AskedTableProperty) /\ ~defined(AskedModel)
  /\ ~answer.result.ok /\ modelReads = <<>>
  /\ entity.entityIndex > 0

\* the one taken of an override, a class default and the identity
Chosen(override, classDefault, identity) ==
  IF defined(override) THEN override.v
  ELSE IF defined(classDefault) THEN classDefault.v ELSE identity
AskedRaw == AskedModel.v[entity.entityIndex + 1].v

\* C6: the value that getPropertyValue returns is the raw value of the
\* row times the scale plus the offset, where scale and offset are chosen
\* independently: the one of the property table property when defined,
\* else the one of the class property when defined, else 1 and 0.
C6_OffsetScalePrecedence ==
  (Asked /\ answer.result.ok) =>
     answer.result.v =
       Num(AskedRaw * Chosen(AskedTableProperty.v.scale, AskedClassProperty.v.scale, 1)
           + Chosen(AskedTableProperty.v.offset, AskedClassProperty.v.offset, 0))

\* a value was returned whose scale is the override although the class has
\* a scale too, and whose offset is the one of the class
C6_Witness ==
  /\ Asked /\ answer.result.ok
  /\ defined(AskedTableProperty.v.scale) /\ defined(AskedClassProperty.v.scale)
  /\ AskedTableProperty.v.scale # AskedClassProperty.v.scale
  /\ ~defined(AskedTableProperty.v.offset) /\ defined(AskedClassProperty.v.offset)
  /\ AskedRaw # 0

AskedBySemantic == answer.t = "getPropertyValueBySemantic"
MappedPropertyId == Get(entity.semanticToPropertyId, answer.arg)

\* C7: getPropertyValueBySemantic(semantic) returns undefined, with no
\* error, when the mapping has no entry for the semantic, and otherwise
\* returns or throws exactly what getPropertyValue of the mapped property
\* id returns or throws.
C7_LookupBySemantic ==
  AskedBySemantic =>
    IF ~defined(MappedPropertyId)
    THEN answer.result = Ok(Undefined) /\ modelReads = <<>>
    ELSE Answered(answer.result, modelReads)
           = BinaryMetadataEntityModel_getPropertyValue(entity, MappedPropertyId.v)

\* an unmapped semantic was asked for of a facade that maps the other one
C7_Witness ==
  /\ AskedBySemantic
  /\ answer.arg = "ID"
  /\ ~defined(MappedPropertyId)
  /\ defined(Get(entity.semanticToPropertyId, "NAME"))
  /\ answer.result = Ok(Undefined)

\* a mapped semantic was asked for and the value of its property returned
MappedSemanticAnswered ==
  /\ AskedBySemantic
  /\ defined(MappedPropertyId)
  /\ answer.result.ok /\ answer.result.v # Undefined

\* a mapped semantic was asked for and the error of its property thrown
MappedSemanticFailed ==
  /\ AskedBySemantic
  /\ defined(MappedPropertyId)
  /\ ~answer.result.ok

(***************************************************************************)
(* Properties of the buffers of the builder (Spec)                         *)
(***************************************************************************)
\* the references of the built property that are defined, in the order
\* values, array offsets, string offsets
BuiltReferences ==
  SelectSeq(<<BuiltProperty.values, BuiltProperty.arrayOffsets,
              BuiltProperty.stringOffsets>>, defined)

\* C11: the builder appends its buffers in the order values, array
\* offsets, string offsets, and the returned property refers to each by
\* its position in that order: `values` is always defined, `arrayOffsets`
\* exactly for an array without a fixed count, `stringOffsets` exactly for
\* the type STRING; the defined references differ pairwise and there are
\* as many buffers as defined references.
C11_BuffersAndReferences ==
  Built =>
    /\ defined(BuiltProperty.values)
    /\ defined(BuiltProperty.arrayOffsets)
         <=> (BuiltClassProperty.array /\ ~defined(BuiltClassProperty.count))
    /\ defined(BuiltProperty.stringOffsets) <=> BuiltClassProperty.type = "STRING"
    /\ BuiltReferences = [i \in 1..Len(BuiltReferences) |-> Num(i - 1)]
    /\ Len(outcome.created) = Len(BuiltReferences)
    /\ Ok(outcome.created[BuiltProperty.values.v + 1])
         = createValuesBuffer(BuiltClassProperty, call.schema, call.values)
    /\ defined(BuiltProperty.arrayOffsets)
         => Ok(outcome.created[BuiltProperty.arrayOffsets.v + 1])
              = createArrayOffsetBuffer(call.values, call.arrayOffsetType)
    /\ defined(BuiltProperty.stringOffsets)
         => Ok(outcome.created[BuiltProperty.stringOffsets.v + 1])
              = createStringOffsetBuffer(call.values, call.stringOffsetType)

\* a table was built for rows of strings of any length: three buffers
C11_Witness ==
  /\ Built
  /\ BuiltClassProperty.type = "STRING"
  /\ BuiltClassProperty.array /\ ~defined(BuiltClassProperty.count)
  /\ call.values.v # <<>>
  /\ Len(outcome.created) = 3
  /\ BuiltProperty.stringOffsets = Num(2)

\* a table was built for rows of a fixed count: no array offsets
FixedCountArrayBuilt ==
  /\ Built
  /\ BuiltClassProperty.array /\ defined(BuiltClassProperty.count)
  /\ call.values.v # <<>>
  /\ ~defined(BuiltProperty.arrayOffsets)

(***************************************************************************)
(* Properties of deriveBoundingVolume (SpecDerive)                         *)
(***************************************************************************)
Observed == derived.t = "derived"
RootBox == Get(derived.root, "box")
RootRegion == Get(derived.root, "region")
RootS2 ==
  IF defined(Get(derived.root, "extensions"))
  THEN Get(Get(derived.root, "extensions"), S2Extension) ELSE Undefined
IsOnly(volume, key) == defined(volume) /\ DOMAIN volume.v = {key}
\* the call is for a tile below the root, with its coordinates
Below == Observed /\ Len(derived.coordinates) >= 3 /\ derived.coordinates[1] >= 1
Level == derived.coordinates[1]
TileX == derived.coordinates[2]
TileY == derived.coordinates[3]
HasZ == Len(derived.coordinates) > 3
TileZ == derived.coordinates[4]

\* C12: for a root with only a box the result has exactly a box, for a
\* root with only a region exactly a region, for a root with the S2
\* extension exactly that extension, and for a root with none of the three
\* the result is undefined, whatever the coordinates are.
C12_ShapePreserved ==
  Observed =>
    /\ IsOnly(derived.root, "box") => IsOnly(derived.value, "box")
    /\ IsOnly(derived.root, "region") => IsOnly(derived.value, "region")
    /\ defined(RootS2)
         => /\ IsOnly(derived.value, "extensions")
            /\ IsOnly(Get(derived.value, "extensions"), S2Extension)
    /\ (~defined(RootBox) /\ ~defined(RootRegion) /\ ~defined(RootS2))
         => derived.value = Undefined

\* the bounding sphere was asked for a tile, after earlier calls
C12_Witness ==
  /\ Observed
  /\ derived.root = SphereVolume
  /\ derived.coordinates = <<1, 0, 1, 1>>
  /\ derived.before # NewScratch
  /\ derived.value = Undefined

\* the volume with a box, a region and an S2 cell gave just the cell
MixedVolumeDerived ==
  /\ Below
  /\ derived.root = MixedVolume
  /\ IsOnly(derived.value, "extensions")

\* C13: at level 0, with or without a z coordinate, the numbers of the
\* volume returned for a root box, region or S2 volume are the root's.
C13_IdentityAtLevelZero ==
  (/\ Observed
   /\ derived.coordinates \in {<<0, 0, 0>>, <<0, 0, 0, 0>>})
  => /\ defined(RootS2)
          => Get(Get(derived.value, "extensions"), S2Extension) = RootS2
     /\ (~defined(RootS2) /\ defined(RootRegion))
          => Get(derived.value, "region") = RootRegion
     /\ (~defined(RootS2) /\ ~defined(RootRegion) /\ defined(RootBox))
          => Get(derived.value, "box") = RootBox

\* the cell "04" was asked for at level 0 with a z coordinate
C13_Witness ==
  /\ Observed
  /\ derived.coordinates = <<0, 0, 0, 0>>
  /\ defined(RootS2)
  /\ RootS2.v.token = Str(<<0, 4>>)
  /\ defined(derived.value)

\* a box and the region across the antimeridian were asked for at level 0
BoxAtLevelZero ==
  Observed /\ derived.coordinates = <<0, 0, 0>> /\ IsOnly(derived.value, "box")
RegionAtLevelZero ==
  /\ Observed /\ derived.coordinates = <<0, 0, 0, 0>>
  /\ IsOnly(derived.value, "region")
  /\ Less(RootRegion.v[3], RootRegion.v[1])

\* the box that was derived, and the root's, as sequences of 12 numbers
ChildBox == Get(derived.value, "box").v
BoxCalled == Below /\ ~defined(RootS2) /\ ~defined(RootRegion) /\ defined(RootBox)
\* -1 + (2 * c + 1) / 2^level
Offset(c) == Minus(Ratio(2 * c + 1, Pow2(Level)), Whole(1))
OffsetZ == IF HasZ THEN Offset(TileZ) ELSE Whole(0)
\* the component i of the half-axis j of a box
Axis(box, j, i) == box[3 * j + i]
TenTimesIdentity == Wholes(<<0, 0, 0, 10, 0, 0, 0, 10, 0, 0, 0, 10>>)

\* C14: below the root, the center of the derived box is the root's center
\* plus the root's half-axes applied to (mx, my, mz), with
\* m = -1 + (2 * coordinate + 1) / 2^level and mz = 0 without z; its first
\* and second half-axes are the root's divided by 2^level, and so is the
\* third with z, while without z the third is the root's.  The box with
\* center (0, 0, 0) and half-axes 10 * identity gives, for level 1 and
\* x = y = z = 0, the center (-5, -5, -5) and the half-axes 5 * identity.
C14_BoxFormula ==
  /\ BoxCalled =>
       /\ Len(ChildBox) = 12
       /\ \A i \in 1..3 :
            /\ ChildBox[i] =
                 Plus(RootBox.v[i],
                      Plus(Plus(Times(Axis(RootBox.v, 1, i), Offset(TileX)),
                                Times(Axis(RootBox.v, 2, i), Offset(TileY))),
                           Times(Axis(RootBox.v, 3, i), OffsetZ)))
            /\ \A j \in 1..2 :
                 Axis(ChildBox, j, i) =
                   Ratio(Axis(RootBox.v, j, i).n, Axis(RootBox.v, j, i).d * Pow2(Level))
            /\ HasZ => Axis(ChildBox, 3, i) =
                         Ratio(Axis(RootBox.v, 3, i).n,
                               Axis(RootBox.v, 3, i).d * Pow2(Level))
            /\ ~HasZ => Axis(ChildBox, 3, i) = Axis(RootBox.v, 3, i)
  /\ (BoxCalled /\ RootBox = TenTimesIdentity /\ derived.coordinates = <<1, 0, 0, 0>>)
       => ChildBox = Wholes(<<0 - 5, 0 - 5, 0 - 5, 5, 0, 0, 0, 5, 0, 0, 0, 5>>).v

\* the skewed box was subdivided twice without z, after earlier calls: the
\* tile (3, 0) has the center (5/2, -5/2, 3) and the third half-axis of the root
C14_Witness ==
  /\ BoxCalled
  /\ derived.coordinates = <<2, 3, 0>>
  /\ derived.before # NewScratch
  /\ RootBox # TenTimesIdentity
  /\ SubSeq(ChildBox, 1, 3) = <<Ratio(5, 2), Ratio(0 - 5, 2), Whole(3)>>
  /\ SubSeq(ChildBox, 10, 12) = SubSeq(RootBox.v, 10, 12)

\* the instance of the box with half-axes 10 * identity
BoxInstanceDerived ==
  /\ BoxCalled /\ RootBox = TenTimesIdentity /\ derived.coordinates = <<1, 0, 0, 0>>
  /\ ChildBox[1] = Whole(0 - 5)

\* the region that was derived, as a sequence of 6 numbers
ChildRegion == Get(derived.value, "region").v
RegionCalled == Below /\ ~defined(RootS2) /\ defined(RootRegion)
InRange(angle) == AtMost(Whole(0 - 1), angle) /\ AtMost(angle, Whole(1))
\* b is the angle a renormalised into [-pi, pi]: a itself when it is in
\* the range, and else an angle of the range that differs from a by a
\* multiple of 2 * pi
IsWrapOf(b, a) ==
  /\ InRange(b)
  /\ Minus(a, b).d = 1 /\ Minus(a, b).n % 2 = 0
  /\ InRange(a) => b = a
\* the root's width, eastwards from west to east, and its height
RootWidth ==
  IF Less(RootRegion.v[3], RootRegion.v[1])
  THEN Plus(Minus(Whole(1), RootRegion.v[1]), Minus(RootRegion.v[3], Whole(0 - 1)))
  ELSE Minus(RootRegion.v[3], RootRegion.v[1])
RootHeight == Minus(RootRegion.v[4], RootRegion.v[2])
Part(a) == Ratio(a.n, a.d * Pow2(Level))
CrossesAntimeridian == Less(RootRegion.v[3], RootRegion.v[1])

\* C15: below the root, west = wrap(rootWest + x * w) and
\* east = wrap(west + w) with w = rootWidth / 2^level, the width taken
\* eastwards also across the antimeridian; south = wrap(rootSouth + y * h)
\* and north = wrap(south + h) with h = rootHeight / 2^level; without z the
\* two heights are the root's.
C15_RegionFormula ==
  RegionCalled =>
    /\ Len(ChildRegion) = 6
    /\ IsWrapOf(ChildRegion[1],
                Plus(RootRegion.v[1], Times(Whole(TileX), Part(RootWidth))))
    /\ IsWrapOf(ChildRegion[3], Plus(ChildRegion[1], Part(RootWidth)))
    /\ IsWrapOf(ChildRegion[2],
                Plus(RootRegion.v[2], Times(Whole(TileY), Part(RootHeight))))
    /\ IsWrapOf(ChildRegion[4], Plus(ChildRegion[2], Part(RootHeight)))
    /\ ~HasZ => /\ ChildRegion[5] = RootRegion.v[5]
                /\ ChildRegion[6] = RootRegion.v[6]

\* the region from 3/4 pi eastwards to -3/4 pi was halved without z: its
\* eastern half goes from pi to -3/4 pi
C15_Witness ==
  /\ RegionCalled
  /\ CrossesAntimeridian
  /\ derived.coordinates = <<1, 1, 1>>
  /\ ChildRegion = <<Whole(1), Whole(0), Ratio(0 - 3, 4), Ratio(1, 4),
                     Whole(0 - 10), Whole(30)>>

\* a region was asked for the tile of any level, the root included
RegionAsked ==
  /\ Observed /\ Len(derived.coordinates) >= 3
  /\ ~defined(RootS2) /\ defined(RootRegion)

\* C16: when the four angles of the root region are in [-pi, pi] and
\* 0 <= x, y < 2^level, level >= 0, the west, south, east and north of the
\* derived region are in [-pi, pi].
C16_AnglesInRange ==
  (/\ RegionAsked
   /\ \A i \in 1..4 : InRange(RootRegion.v[i])
   /\ Level >= 0 /\ TileX \in 0..(Pow2(Level) - 1) /\ TileY \in 0..(Pow2(Level) - 1))
  => \A i \in 1..4 : InRange(ChildRegion[i])

\* the easternmost quarter of the region from 3/4 pi eastwards to -3/4 pi
\* begins at 3/4 pi + 3/8 pi, which is beyond pi: its west is -7/8 pi
C16_Witness ==
  /\ RegionAsked
  /\ derived.coordinates = <<2, 3, 3>>
  /\ ~InRange(Plus(RootRegion.v[1], Times(Whole(TileX), Part(RootWidth))))
  /\ ChildRegion[1] = Ratio(0 - 7, 8)
  /\ ChildRegion[3] = Ratio(0 - 3, 4)

RootThickness == Minus(RootRegion.v[6], RootRegion.v[5])
ChildThickness == Minus(ChildRegion[6], ChildRegion[5])

\* C17 (as stated): with a z coordinate in {0, 1}, at every level >= 1, the
\* thickness of the derived region is (rootMax - rootMin) / 2, its minimum
\* is rootMin + z * (rootMax - rootMin) / 2 and its maximum is its minimum
\* plus that thickness.
C17_HalvedAtEveryLevel ==
  (RegionCalled /\ HasZ /\ TileZ \in {0, 1}) =>
    /\ ChildThickness = Times(RootThickness, Ratio(1, 2))
    /\ ChildRegion[5] =
         Plus(RootRegion.v[5], Times(Whole(TileZ), Times(RootThickness, Ratio(1, 2))))
    /\ ChildRegion[6] = Plus(ChildRegion[5], Times(RootThickness, Ratio(1, 2)))

\* C17 (amended): with a z coordinate, 0 <= z < 2^level, at a level >= 1,
\* the thickness of the derived region is (rootMax - rootMin) / 2^level, its
\* minimum is rootMin + z * (rootMax - rootMin) / 2^level and its maximum is
\* its minimum plus that thickness; at level 1 this is the root's interval
\* halved and offset by z in {0, 1}.
C17_HeightsByLevel ==
  (RegionCalled /\ HasZ /\ TileZ \in 0..(Pow2(Level) - 1)) =>
    /\ ChildThickness = Part(RootThickness)
    /\ ChildRegion[5] = Plus(RootRegion.v[5], Times(Whole(TileZ), Part(RootThickness)))
    /\ ChildRegion[6] = Plus(ChildRegion[5], Part(RootThickness))
    /\ Level = 1 => ChildThickness = Times(RootThickness, Ratio(1, 2))

\* the highest of the four layers of the region with heights -10 to 30 was
\* derived: heights 20 to 30, a quarter of the root's
C17_Witness ==
  /\ RegionCalled /\ HasZ
  /\ Level = 2 /\ TileZ = 3
  /\ RootRegion.v[5] = Whole(0 - 10) /\ RootRegion.v[6] = Whole(30)
  /\ ChildRegion[5] = Whole(20) /\ ChildRegion[6] = Whole(30)

\* the upper half of a region at level 1
UpperHalfDerived ==
  /\ RegionCalled /\ HasZ /\ Level = 1 /\ TileZ = 1
  /\ ChildRegion[5] = Whole(10) /\ ChildRegion[6] = Whole(30)

\* the S2 volume that was derived; the identifiers of its cell and the root's
ChildS2 == Get(Get(derived.value, "extensions"), S2Extension)
S2Called == Below /\ defined(RootS2)
ChildId == getIdFromToken(ChildS2.v.token)
RootFace == FaceOf(getIdFromToken(RootS2.v.token))
\* the number in the 2 * level bits that follow the three bits of the face
PositionOf(id, level) ==
  SumSeq([k \in 1..(2 * level) |-> id[3 + k] * Pow2(2 * level - k)])
\* the position in the token derived from a root for the tile (x, y)
DerivedPosition(root, level, x, y) ==
  PositionOf(getIdFromToken(deriveBoundingVolumeS2(root, level, x, y, Undefined).v.token),
             level)
EvenFaceRoot == BoundingVolumeS2(<<1>>, 0, 10)
OddFaceRoot == BoundingVolumeS2(<<3>>, 0 - 4, 6)

\* C18: below the root, the derived cell has the face of the root cell
\* (the top 3 bits of its identifier), the Hilbert index of (x, y) at the
\* level as its position when the face is even and that of (y, x) when it
\* is odd, and the level; so the position derived on an odd face for (x, y)
\* is the one derived on an even face for (y, x), for the x and y of every
\* tile.
C18_FaceParity ==
  S2Called =>
    /\ FaceOf(ChildId) = RootFace
    /\ PositionOf(ChildId, Level) =
         IF RootFace % 2 = 0 THEN encode2D(Level, TileX, TileY)
         ELSE encode2D(Level, TileY, TileX)
    /\ ChildId[4 + 2 * Level] = 1
    /\ \A i \in (5 + 2 * Level)..64 : ChildId[i] = 0
    /\ DerivedPosition(OddFaceRoot, Level, TileX, TileY)
         = DerivedPosition(EvenFaceRoot, Level, TileY, TileX)

\* the cell "3" of face 1 was asked for the tile (3, 0) of level 2: its
\* position is the Hilbert index of (0, 3), which is not that of (3, 0)
C18_Witness ==
  /\ S2Called
  /\ RootFace = 1
  /\ derived.coordinates = <<2, 3, 0>>
  /\ PositionOf(ChildId, 2) = encode2D(2, 0, 3)
  /\ encode2D(2, 0, 3) # encode2D(2, 3, 0)

\* an even face, for the same tile
EvenFaceDerived ==
  /\ S2Called /\ RootFace = 0 /\ derived.coordinates = <<2, 3, 0>>
  /\ PositionOf(ChildId, 2) = encode2D(2, 3, 0)

\* C19: below the root, the derived S2 volume has the root's heights when
\* no z is given; with z it has [rootMin, mid] when z is even and
\* [mid, rootMax] when z is odd, mid = (rootMin + rootMax) / 2; so
\* minimumHeight <= maximumHeight holds in it whenever it holds in the root.
C19_S2Heights ==
  S2Called =>
    LET rootMin == RootS2.v.minimumHeight
        rootMax == RootS2.v.maximumHeight
        mid == Ratio(Plus(rootMin, rootMax).n, Plus(rootMin, rootMax).d * 2)
    IN  /\ ~HasZ => /\ ChildS2.v.minimumHeight = rootMin
                    /\ ChildS2.v.maximumHeight = rootMax
        /\ (HasZ /\ TileZ % 2 = 0) => /\ ChildS2.v.minimumHeight = rootMin
                                      /\ ChildS2.v.maximumHeight = mid
        /\ (HasZ /\ TileZ % 2 = 1) => /\ ChildS2.v.minimumHeight = mid
                                      /\ ChildS2.v.maximumHeight = rootMax
        /\ AtMost(rootMin, rootMax)
             => AtMost(ChildS2.v.minimumHeight, ChildS2.v.maximumHeight)

\* the cell "3" with heights -4 to 6 was asked for a tile of level 2 in the
\* layer 3: heights 1 to 6
C19_Witness ==
  /\ S2Called /\ HasZ
  /\ Level = 2 /\ TileZ = 3
  /\ ChildS2.v.minimumHeight = Whole(1)
  /\ ChildS2.v.maximumHeight = Whole(6)

\* a lower half, and a tile without z
LowerHalfDerived ==
  /\ S2Called /\ HasZ /\ TileZ = 0
  /\ ChildS2.v.minimumHeight = Whole(0 - 4) /\ ChildS2.v.maximumHeight = Whole(1)
S2QuadtreeTileDerived ==
  /\ S2Called /\ ~HasZ
  /\ ChildS2.v.minimumHeight = Whole(0 - 4) /\ ChildS2.v.maximumHeight = Whole(6)

\* what the same call gives when no call was made before it
OnFreshStart == deriveBoundingVolume(NewScratch, derived.root, derived.coordinates)

\* C20: after any calls made before, deriveBoundingVolume(root, coords)
\* gives what it gives on a fresh start, so two runs that differ only in the
\* calls made before give equal results; and the call leaves every number of
\* the root volume as it was.
C20_Pure ==
  Observed =>
    /\ derived.value = OnFreshStart.value
    /\ derived.rootAfter = derived.root

\* a quadtree tile of the skewed box was derived after an octree tile of
\* the other box, whose scale factors and half-axes were in the scratch
\* objects
C20_Witness ==
  /\ BoxCalled /\ ~HasZ
  /\ derived.before.scratchScaleFactors[3] = Ratio(1, 2)
  /\ derived.before.scratchHalfAxes # Matrix3_unpack(RootBox.v, 3)
  /\ Axis(ChildBox, 3, 3) = Axis(RootBox.v, 3, 3)
  /\ derived.value = OnFreshStart.value

\* a region was derived after another region
RegionAfterRegion ==
  /\ RegionCalled
  /\ derived.before.scratchRectangle # NewScratch.scratchRectangle
  /\ derived.before.scratchRectangle # Rectangle_unpack(RootRegion.v, 0)

(***************************************************************************)
(* Properties of the array property models (SpecArray)                     *)
(***************************************************************************)
StringArrayRead ==
  arrayRead.t = "read" /\ arrayModel.t = "StringArrayPropertyModel"
\* entry k of an offsets buffer, and the number of its entries
Entry(buffer, offsetType, k) == ReadUnsigned(buffer, k, offsetType)
EntryCount(buffer, offsetType) == Len(buffer) \div ByteSize(offsetType)
\* the slice [start, start + L) of a row: from the array offsets when the
\* model has them, else from the count
RowStart(model, row) ==
  IF defined(model.arrayOffsetsBuffer)
  THEN Entry(model.arrayOffsetsBuffer.v, model.arrayOffsetType, row)
  ELSE row * model.count.v
RowLength(model, row) ==
  IF defined(model.arrayOffsetsBuffer)
  THEN Entry(model.arrayOffsetsBuffer.v, model.arrayOffsetType, row + 1)
         - Entry(model.arrayOffsetsBuffer.v, model.arrayOffsetType, row)
  ELSE model.count.v
RowHasSlice(model, row) ==
  /\ row >= 0
  /\ defined(model.arrayOffsetsBuffer)
       => row + 1 < EntryCount(model.arrayOffsetsBuffer.v, model.arrayOffsetType)
  /\ RowLength(model, row) >= 0
StringOffset(model, k) == Entry(model.stringOffsetsBuffer, model.stringOffsetType, k)
\* the row has a slice, and the string offsets of its elements are entries
\* of the string offsets buffer that delimit bytes of the values buffer
StringRowIsValid(model, row) ==
  /\ RowHasSlice(model, row)
  /\ RowLength(model, row) > 0 =>
       /\ RowStart(model, row) + RowLength(model, row)
            < EntryCount(model.stringOffsetsBuffer, model.stringOffsetType)
       /\ \A k \in RowStart(model, row)..(RowStart(model, row) + RowLength(model, row) - 1) :
            /\ StringOffset(model, k) <= StringOffset(model, k + 1)
            /\ StringOffset(model, k + 1) <= Len(model.valuesBuffer)
\* the bytes of the values buffer between the string offsets k and k + 1,
\* decoded
StringOfEntry(model, k) ==
  Str(TextDecode(SubSeq(model.valuesBuffer, StringOffset(model, k) + 1,
                        StringOffset(model, k + 1))))
StringsOfRow(model, row) ==
  [i \in 1..RowLength(model, row) |-> StringOfEntry(model, RowStart(model, row) + i - 1)]

\* C21: getPropertyValue(row) of a string array model returns exactly L
\* strings, [start, start + L) being the slice of the row (from the array
\* offsets when there are any, else start = row * count and L = count); its
\* i-th string is the bytes of the values buffer between the string offsets
\* start + i and start + i + 1; the strings of the next row are the entries
\* that follow, in order.
C21_StringArrayRows ==
  (StringArrayRead /\ StringRowIsValid(arrayModel, arrayRead.index)) =>
    /\ arrayRead.result.ok
    /\ arrayRead.result.v = Arr(StringsOfRow(arrayModel, arrayRead.index))
    /\ StringRowIsValid(arrayModel, arrayRead.index + 1) =>
         /\ RowStart(arrayModel, arrayRead.index + 1)
              = RowStart(arrayModel, arrayRead.index)
                  + RowLength(arrayModel, arrayRead.index)
         /\ StringArrayPropertyModel_getPropertyValue(arrayModel, arrayRead.index + 1)
              = Ok(Arr(StringsOfRow(arrayModel, arrayRead.index + 1)))

\* row 1 of the rows ["ab"], ["ab", "e-acute"] was read: the strings 1 and 2
C21_Witness ==
  /\ StringArrayRead
  /\ call.values = Arr(<<Arr(<<Str(<<97, 98>>)>>), Arr(<<Str(<<97, 98>>), Str(<<233>>)>>)>>)
  /\ defined(arrayModel.arrayOffsetsBuffer)
  /\ arrayRead.index = 1
  /\ RowStart(arrayModel, 1) = 1 /\ RowLength(arrayModel, 1) = 2
  /\ arrayRead.result = Ok(Arr(<<Str(<<97, 98>>), Str(<<233>>)>>))

\* row 1 of rows of two strings was read, without array offsets
FixedStringRowRead ==
  /\ StringArrayRead
  /\ ~defined(arrayModel.arrayOffsetsBuffer)
  /\ arrayRead.index = 1
  /\ arrayRead.result = Ok(Arr(<<Str(<<>>), Str(<<99, 100, 101>>)>>))

NumericArrayRead ==
  arrayRead.t = "read" /\ arrayModel.t = "NumericArrayPropertyModel"
\* the numbers of an element: 1 for SCALAR and ENUM, n for VECn, n * n for MATn
ComponentsOf(type) ==
  CASE type \in {"SCALAR", "ENUM"} -> 1
    [] type = "VEC2" -> 2
    [] type = "VEC3" -> 3
    [] type = "VEC4" -> 4
    [] type = "MAT2" -> 4
    [] type = "MAT3" -> 9
    [] type = "MAT4" -> 16
\* the row has a slice, and its elements are inside the values buffer
NumericRowIsValid(model, row) ==
  /\ RowHasSlice(model, row)
  /\ (RowStart(model, row) + RowLength(model, row)) * ComponentsOf(model.type)
        * ByteSize(model.componentType) <= Len(model.valuesBuffer)
\* the component c of the element e of the values buffer
Component(model, e, c) ==
  Num(ReadUnsigned(model.valuesBuffer, e * ComponentsOf(model.type) + c,
                   model.componentType))
ElementOf(model, e) ==
  IF model.type \in {"SCALAR", "ENUM"} THEN Component(model, e, 0)
  ELSE Arr([c \in 1..ComponentsOf(model.type) |-> Component(model, e, c - 1)])

\* C22: getPropertyValue(row) of a numeric array model returns as many
\* entries as the slice of the row is long; the i-th is, for SCALAR and
\* ENUM, the value of the element start + i of the values buffer, and for
\* VECn and MATn the components of that element in the order of the buffer;
\* so the result is made of the elements of [start, start + length) only.
C22_NumericArrayRows ==
  (NumericArrayRead /\ NumericRowIsValid(arrayModel, arrayRead.index)) =>
    /\ arrayRead.result.ok
    /\ Len(arrayRead.result.v.v) = RowLength(arrayModel, arrayRead.index)
    /\ \A i \in 1..RowLength(arrayModel, arrayRead.index) :
         arrayRead.result.v.v[i]
           = ElementOf(arrayModel, RowStart(arrayModel, arrayRead.index) + i - 1)

\* row 1 of the rows [[1, 2]], [[3, 4], [5, 6]] of VEC2 was read
C22_Witness ==
  /\ NumericArrayRead
  /\ arrayModel.type = "VEC2"
  /\ call.values = Arr(<<Arr(<<Vec2(1, 2)>>), Arr(<<Vec2(3, 4), Vec2(5, 6)>>)>>)
  /\ arrayRead.index = 1
  /\ RowStart(arrayModel, 1) = 1 /\ RowLength(arrayModel, 1) = 2
  /\ arrayRead.result = Ok(Arr(<<Vec2(3, 4), Vec2(5, 6)>>))

\* a row of enum codes of 16 bits, and a row of two numbers without array
\* offsets
EnumArrayRowRead ==
  /\ NumericArrayRead
  /\ arrayModel.type = "ENUM" /\ arrayModel.componentType = "UINT16"
  /\ arrayRead.index = 1
  /\ arrayRead.result = Ok(Arr(<<Num(0), Num(1)>>))
FixedScalarRowRead ==
  /\ NumericArrayRead
  /\ arrayModel.type = "SCALAR" /\ ~defined(arrayModel.arrayOffsetsBuffer)
  /\ arrayRead.index = 1
  /\ arrayRead.result = Ok(Arr(<<Num(3), Num(4)>>))

(***************************************************************************)
(* Properties of getJsonBufferPadded (SpecJson)                            *)
(***************************************************************************)
Padded == padded.t = "padded"
\* the byte offset of the call, 0 when it gave none
GivenByteOffset == IF padded.byteOffset.t = "undefined" THEN 0 ELSE padded.byteOffset.v
HasKeys == padded.json.t # "undefined" /\ KeyCount(padded.json) > 0
StringifiedBytes == TextEncode(JSON_stringify(padded.json))

\* C23: getJsonBufferPadded(json, byteOffset) returns an empty buffer when
\* json is undefined or has no keys; else the bytes of JSON.stringify(json)
\* followed by p spaces, 0 <= p <= 7, p the least number that makes
\* byteOffset + the returned length a multiple of 8, byteOffset being 0 when
\* it is not given.
C23_JsonPadding ==
  Padded =>
    /\ ~HasKeys => padded.result = <<>>
    /\ HasKeys =>
         \E p \in 0..7 :
           /\ padded.result = StringifiedBytes \o [i \in 1..p |-> 32]
           /\ (GivenByteOffset + Len(padded.result)) % 8 = 0
           /\ \A q \in 0..(p - 1) :
                (GivenByteOffset + Len(StringifiedBytes) + q) % 8 # 0

\* {"a":"e-acute"} is 9 code units and 10 bytes; from the byte offset 3 it
\* gets 3 spaces
C23_Witness ==
  /\ Padded
  /\ padded.json = JsonObject(<<Member(<<97>>, Str(<<233>>))>>)
  /\ padded.byteOffset = Num(3)
  /\ Len(JSON_stringify(padded.json)) = 9
  /\ Len(padded.result) = 13
  /\ SubSeq(padded.result, 11, 13) = <<32, 32, 32>>

\* no padding at all, the empty object, and a call without a byte offset
NothingToPad ==
  Padded /\ HasKeys /\ padded.result = StringifiedBytes /\ GivenByteOffset > 0
EmptyObjectPadded ==
  Padded /\ padded.json = JsonObject(<<>>) /\ padded.result = <<>>
PaddedWithoutByteOffset ==
  /\ Padded /\ padded.byteOffset = Undefined /\ HasKeys
  /\ Len(padded.result) > Len(StringifiedBytes)

(***************************************************************************)
(* Properties of the tileset targets (SpecTarget)                          *)
(***************************************************************************)
TargetCreated == target.t = "target"
CallCount == Len(target.calls)
NameOfCall(i) == target.calls[i].name
EndingOfCall(i) == target.calls[i].ending
CallReturned(i) == EndingOfCall(i) = "returned"
\* the target is open before the call i: a begin before it returned, and no
\* end between the two returned
OpenBefore(i) ==
  \E j \in 1..(i - 1) :
    /\ NameOfCall(j) = "begin" /\ CallReturned(j)
    /\ \A k \in (j + 1)..(i - 1) : ~(NameOfCall(k) = "end" /\ CallReturned(k))
CallsAre(names) ==
  TargetCreated /\ CallCount = Len(names) /\ \A i \in 1..Len(names) : NameOfCall(i) = names[i]

\* C24: for every implementation of TilesetTarget and every sequence of
\* calls, addEntry returns exactly while the target is open and throws
\* before the first begin and after end; begin throws when the target is
\* already open; end is rejected when the target is not open, before any
\* begin and the second time after an end.
C24_TargetLifecycle ==
  TargetCreated =>
    \A i \in 1..CallCount :
      /\ NameOfCall(i) = "addEntry" =>
           IF OpenBefore(i) THEN CallReturned(i) ELSE EndingOfCall(i) = "thrown"
      /\ NameOfCall(i) = "begin" /\ OpenBefore(i) => EndingOfCall(i) = "thrown"
      /\ NameOfCall(i) = "end" /\ ~OpenBefore(i) => EndingOfCall(i) = "rejected"

\* a package target is opened, written to, ended, and ended again
C24_Witness ==
  /\ CallsAre(<<"begin", "addEntry", "end", "end">>)
  /\ target.self.kind = "TilesetTarget3tz"
  /\ CallReturned(1) /\ CallReturned(2) /\ CallReturned(3)
  /\ EndingOfCall(4) = "rejected"

\* the other cases of the contract
AddEntryBeforeBegin == CallsAre(<<"addEntry">>) /\ EndingOfCall(1) = "thrown"
EndBeforeBegin == CallsAre(<<"end">>) /\ EndingOfCall(1) = "rejected"
BeginTwice ==
  /\ CallsAre(<<"begin", "begin", "end">>)
  /\ EndingOfCall(2) = "thrown" /\ CallReturned(3)
  /\ target.self.kind = "TilesetTargetFs"
AddEntryAfterEnd ==
  /\ CallsAre(<<"begin", "end", "addEntry">>)
  /\ EndingOfCall(3) = "thrown"
  /\ target.self.kind = "TilesetInMemory"

(***************************************************************************)
(* Properties of the values buffer of booleans (Spec)                      *)
(***************************************************************************)
BuiltBoolean == Built /\ BuiltClassProperty.type = "BOOLEAN"
\* the booleans of the call after flattening, and the buffer they got
FlatBooleans == FlattenLeaves(call.values)
BooleanBytes == BuiltBuffer(BuiltProperty.values)
BitOf(byte, position) == (byte \div Pow2(position)) % 2
\* the bit of the k-th boolean, k from 0
BitAt(k) == BitOf(BooleanBytes[(k \div 8) + 1], k % 8)

\* C25: the values buffer of a BOOLEAN property has exactly ceil(n / 8)
\* bytes for the n booleans of the flattened values; the k-th boolean is bit
\* k mod 8 of byte floor(k / 8), counted from the least significant bit, and
\* is 1 exactly when the boolean is true; the bits from n on are 0.
C25_BooleanBits ==
  BuiltBoolean =>
    LET n == Len(FlatBooleans)
        length == Len(BooleanBytes)
    IN  /\ 8 * length >= n /\ 8 * (length - 1) < n
        /\ \A k \in 0..(n - 1) : (BitAt(k) = 1) <=> (FlatBooleans[k + 1].v = TRUE)
        /\ \A k \in n..(8 * length - 1) : BitAt(k) = 0

\* a row of three and a row of nine booleans take two bytes: bits 0, 2, 4
\* of the first and bits 2, 3 of the second
C25_Witness ==
  /\ BuiltBoolean
  /\ call.values = Arr(<<Booleans(<<TRUE, FALSE, TRUE>>), Booleans(<<FALSE, TRUE, FALSE, FALSE, FALSE, FALSE, FALSE, TRUE, TRUE>>)>>)
  /\ BooleanBytes = <<21, 12>>

\* no boolean at all, and a column of single booleans
NoBooleanBuilt == BuiltBoolean /\ FlatBooleans = <<>> /\ BooleanBytes = <<>>
BooleanColumnBuilt ==
  /\ BuiltBoolean /\ ~BuiltClassProperty.array
  /\ Len(FlatBooleans) = 2 /\ BooleanBytes = <<2>>

(***************************************************************************)
(* Which representation of the root deriveBoundingVolume uses (SpecDerive) *)
(***************************************************************************)
\* the root has more than one field; what the call gives for a root that has
\* only the one field of the root
HasSeveral == Observed /\ Cardinality(DOMAIN derived.root.v) > 1
OfAlone(key) ==
  deriveBoundingVolume(derived.before, Obj(key :> Get(derived.root, key)),
                       derived.coordinates).value
AsOfAlone(key) == HasSeveral => derived.value = OfAlone(key)

\* C26: the S2 extension of the root is used whenever it is present, also
\* next to a region or a box; the region when there is no S2 extension, also
\* next to a box; the box only when there is neither.  The result holds the
\* representation that was used and no other field of the root.
C26_DispatchPrecedence ==
  Observed =>
    /\ defined(RootS2)
         => IsOnly(derived.value, "extensions") /\ AsOfAlone("extensions")
    /\ (~defined(RootS2) /\ defined(RootRegion))
         => IsOnly(derived.value, "region") /\ AsOfAlone("region")
    /\ (~defined(RootS2) /\ ~defined(RootRegion) /\ defined(RootBox))
         => IsOnly(derived.value, "box") /\ AsOfAlone("box")
    /\ defined(derived.value) => ~defined(Get(derived.value, "sphere"))

\* a root with a region and a box gave the region of a child
C26_Witness ==
  /\ Below
  /\ derived.root = RegionAndBox
  /\ derived.coordinates = <<1, 1, 0>>
  /\ IsOnly(derived.value, "region")
  /\ derived.value # Obj("region" :> RootRegion)

\* a box next to a sphere, and an S2 cell next to a region and a sphere
BoxAndSphereDerived ==
  /\ Below /\ derived.root = BoxAndSphere
  /\ IsOnly(derived.value, "box") /\ derived.before # NewScratch
S2AndSphereDerived ==
  /\ Below /\ derived.root = S2AndSphere
  /\ IsOnly(derived.value, "extensions") /\ HasSeveral

(***************************************************************************)
(* The derived boxes as parts of the root box (SpecDerive)                 *)
(***************************************************************************)
\* the call was answered from the box of the root, at any level
BoxObserved ==
  /\ Observed /\ Len(derived.coordinates) >= 3
  /\ ~defined(RootS2) /\ ~defined(RootRegion) /\ defined(RootBox)
\* the interval of the tile c of a level in model space, where the root box
\* is [-1, 1]: [-1 + 2 * c / 2^level, -1 + 2 * (c + 1) / 2^level]
Interval(level, c) ==
  [lo |-> Minus(Ratio(2 * c, Pow2(level)), Whole(1)),
   hi |-> Minus(Ratio(2 * (c + 1), Pow2(level)), Whole(1))]
WholeAxis == [lo |-> Whole(0 - 1), hi |-> Whole(1)]
Middle(interval) == Times(Ratio(1, 2), Plus(interval.lo, interval.hi))
HalfWidth(interval) == Times(Ratio(1, 2), Minus(interval.hi, interval.lo))
\* the lower (0) or the upper (1) half of an interval
HalfOf(interval, side) ==
  IF side = 0 THEN [lo |-> interval.lo, hi |-> Middle(interval)]
  ELSE [lo |-> Middle(interval), hi |-> interval.hi]
\* the box that covers the three intervals of the model space of a root box
BoxOver(root, intervals) ==
  [k \in 1..12 |->
     IF k <= 3
     THEN Plus(root[k],
               Plus(Plus(Times(Axis(root, 1, k), Middle(intervals[1])),
                         Times(Axis(root, 2, k), Middle(intervals[2]))),
                    Times(Axis(root, 3, k), Middle(intervals[3]))))
     ELSE Times(Axis(root, (k - 1) \div 3, k - 3 * ((k - 1) \div 3)),
                HalfWidth(intervals[(k - 1) \div 3]))]
\* the intervals of the tile that was asked for
IntervalX == Interval(Level, TileX)
IntervalY == Interval(Level, TileY)
IntervalZ == IF HasZ THEN Interval(Level, TileZ) ELSE WholeAxis
\* the box of a tile derived from the root in one step, and the box of a
\* child of the derived box, derived from it as from a root
DirectBox(level, x, y, z) ==
  deriveBoundingBox(NewScratch, RootBox, level, x, y, z).value.v
SubdividedBox(x, y, z) ==
  deriveBoundingBox(NewScratch, Arr(ChildBox), 1, x, y, z).value.v
Sides == {0, 1}
SidesOfZ == IF HasZ THEN Sides ELSE {0}
Inside(interval, outer) ==
  /\ AtMost(outer.lo, interval.lo) /\ Less(interval.lo, interval.hi)
  /\ AtMost(interval.hi, outer.hi)

\* C27: along each axis that is subdivided, the box derived for (level, x)
\* covers the interval [-1 + 2x / 2^level, -1 + 2(x + 1) / 2^level] of the
\* model space of the root; the boxes for (level + 1, 2x) and
\* (level + 1, 2x + 1) are the two halves of the box for (level, x), whether
\* they are derived from the root or from that box (for the levels of the
\* model that have children); the 2^level intervals of
\* a level meet only at their ends and cover [-1, 1]; and every derived box
\* lies inside the root box.
C27_DirectAgreesWithSubdivision ==
  BoxObserved =>
    /\ ChildBox = BoxOver(RootBox.v, <<IntervalX, IntervalY, IntervalZ>>)
    /\ Level < MaxLevel => \A a \in Sides, b \in Sides, c \in SidesOfZ :
         LET z == IF HasZ THEN Num(2 * TileZ + c) ELSE Undefined
             side == IF HasZ THEN Num(c) ELSE Undefined
             direct == DirectBox(Level + 1, 2 * TileX + a, 2 * TileY + b, z)
         IN  /\ direct = SubdividedBox(a, b, side)
             /\ direct = BoxOver(RootBox.v,
                                 <<HalfOf(IntervalX, a), HalfOf(IntervalY, b),
                                   IF HasZ THEN HalfOf(IntervalZ, c) ELSE WholeAxis>>)
    /\ HalfOf(IntervalX, 0) = Interval(Level + 1, 2 * TileX)
    /\ HalfOf(IntervalX, 1) = Interval(Level + 1, 2 * TileX + 1)
    /\ Interval(Level, 0).lo = Whole(0 - 1)
    /\ Interval(Level, Pow2(Level) - 1).hi = Whole(1)
    /\ \A c \in 0..(Pow2(Level) - 2) : Interval(Level, c).hi = Interval(Level, c + 1).lo
    /\ \A c \in 0..(Pow2(Level) - 1) : Less(Interval(Level, c).lo, Interval(Level, c).hi)
    /\ Inside(IntervalX, WholeAxis) /\ Inside(IntervalY, WholeAxis)
    /\ Inside(IntervalZ, WholeAxis)

\* the skewed box was asked for the tile (1, 0, 1) of level 1, after
\* earlier calls: it covers [0, 1] x [-1, 0] x [0, 1], and its child
\* (2, 3, 0, 2) is the part [1/2, 1] x [-1, -1/2] x [0, 1/2]
C27_Witness ==
  /\ BoxObserved
  /\ derived.coordinates = <<1, 1, 0, 1>>
  /\ derived.before # NewScratch
  /\ RootBox # TenTimesIdentity
  /\ IntervalX = [lo |-> Whole(0), hi |-> Whole(1)]
  /\ IntervalY = [lo |-> Whole(0 - 1), hi |-> Whole(0)]
  /\ SubdividedBox(1, 0, Num(0)) = DirectBox(2, 3, 0, Num(2))
  /\ SubdividedBox(1, 0, Num(0)) # ChildBox

\* a tile of the deepest level without z, and the root tile itself
DeepestBoxDerived ==
  /\ BoxObserved /\ Level = MaxLevel /\ ~HasZ /\ TileX = Pow2(Level) - 1
  /\ IntervalX.hi = Whole(1) /\ IntervalZ = WholeAxis
RootBoxDerived ==
  /\ BoxObserved /\ Level = 0
  /\ ChildBox = RootBox.v /\ IntervalX = WholeAxis

====
